---- MODULE Spec2Model ----
(***************************************************************************)
(* A model of the two adapter services of brettinternet/mcp:               *)
(*   - the standup service's GitHubService.get_activity, in its            *)
(*     HTTP-backed variant (standup_server/github.py) and its CLI-backed   *)
(*     variant (mcp_server_standup/github.py);                             *)
(*   - the tool dispatchers of the mise and standup servers.               *)
(*                                                                         *)
(* get_activity is modelled at the grain of its external calls: one        *)
(* action is one external call (an HTTP GET, a `gh api` subprocess)        *)
(* together with all the code that runs on its response up to the next     *)
(* external call.  In the HTTP-backed variant these are exactly the        *)
(* await points; in the CLI-backed variant the calls block.                *)
(*                                                                         *)
(* Strings are modelled by a finite universe; str.strip, str.lower and     *)
(* str.replace(" ", "_") are tables over that universe.  ISO-8601 time     *)
(* stamps of the fixed format YYYY-MM-DDTHH:MM:SSZ compare as strings the  *)
(* way their instants compare, so a time stamp is the number of seconds    *)
(* since day 0 and the code's string comparisons are integer comparisons.  *)
(*                                                                         *)
(* An event feed answers newest first, as the events API does: a page is   *)
(* some filler records newer than the window followed by distinct records  *)
(* of interest in non-increasing created_at order.  Nothing else is        *)
(* assumed of a response: it may be short, empty, full, fail in a way the  *)
(* code catches or in a way it does not.                                   *)
(*                                                                         *)
(* The dispatchers have a specification of their own, SpecDispatch: a      *)
(* handler is an external party that returns a text or raises.             *)
(* run_mise_command has SpecCommand, two get_activity calls alternating    *)
(* on one service have SpecInterleave, and SpecReport takes a collection   *)
(* from the event processors through the sort and the summary to           *)
(* StandupFormatter.format_standup_report.  A report is a sequence of      *)
(* lines and a line a sequence of text, marker and link segments, so that  *)
(* the cleaning of the text report acts on links.  SpecCommandLive is      *)
(* SpecCommand with the steps of the call weakly fair, SpecDates is        *)
(* DateParser.parse_date followed by get_utc_date_range, SpecFeed is       *)
(* get_activity over a feed that does not change while it is read, and     *)
(* SpecLive is get_activity with the organization listing asked page by    *)
(* page and every external call answering.                                 *)
(***************************************************************************)
EXTENDS Integers, Sequences, FiniteSets, TLC

\* ---------------------------------------------------------------- bounds

\* The day a request asks for (days since day 0).
TargetDay == 1
\* Records of interest a page response carries besides its filler records.
MaxRecs == 2
\* Pages of one feed that carry records of interest; deeper pages hold only
\* filler records (or are short, empty or fail).
MaxDataPages == 1
\* Events one request accepts in total before the feeds only return records
\* its filters reject.
MaxEvents == 2
\* Events of a collection that is summarized and formatted.
MaxReportEvents == 3

\* ------------------------------------------------------ program constants

\* per_page = 100 in _get_repo_events / _get_user_events.
per_page == 100
\* `while page <= 50`, the safety limit of the pagination loops.
page_limit == 50

\* ------------------------------------------------------------- strings

\* Python's None (and a variable not set in the environment).
NoneVal == "None"

\* `if s:` for an optional string: None and "" are falsy.
Truthy(s) == s # NoneVal /\ s # ""

\* str.strip() on the strings of the model.
StrStrip(s) ==
    CASE s = " " -> ""
      [] s = " r2" -> "r2"
      [] s = " Add X" -> "Add X"
      [] OTHER -> s

\* str.lower() on the strings of the model.
StrLower(s) ==
    CASE s = "Alice" -> "alice"
      [] s = "Fix Bug" -> "fix bug"
      [] s = "Add X" -> "add x"
      [] s = "Add x" -> "add x"
      [] OTHER -> s

\* str.replace(" ", "_") on the strings of the model.
StrSpaceToUnderscore(s) ==
    CASE s = "fix bug" -> "fix_bug"
      [] s = "add x" -> "add_x"
      [] OTHER -> s

\* str.split(",") on the values GITHUB_REPOS takes in the model.
StrSplitComma(s) ==
    CASE s = "r1,r2" -> <<"r1", "r2">>
      [] s = " , " -> <<" ", " ">>
      [] OTHER -> <<s>>

\* [x.strip() for x in xs if x.strip()]
RECURSIVE StripNonEmpty(_)
StripNonEmpty(xs) ==
    IF xs = <<>> THEN <<>>
    ELSE LET h == StrStrip(Head(xs))
         IN  (IF h # "" THEN <<h>> ELSE <<>>) \o StripNonEmpty(Tail(xs))

\* ---------------------------------------------------------- date window

\* DateParser.get_utc_date_range: start is the day at 00:00:00Z, end is the
\* next day at 07:59:59Z.
get_utc_date_range(day) ==
    [start |-> day * (24 * 60 * 60),
     end   |-> (day + 1) * (24 * 60 * 60) + (7 * 60 * 60 + 59 * 60 + 59)]

start_time == get_utc_date_range(TargetDay).start
end_time == get_utc_date_range(TargetDay).end

\* ------------------------------------------------------- external data

\* A commit of a Push payload: {"message": ..., "sha": ...}.
Commit(m, s) == [message |-> m, sha |-> s]

\* The raw event records the source returns (event_data), flattened:
\* commits, ref, size, ref_type are payload fields, number and title those of
\* payload.pull_request or payload.issue, state that of payload.review, is_pr
\* whether payload.issue has a pull_request key.  repo_name is
\* event_data["repo"]["name"], read only by the user feed; "" is a record
\* without it.
RawEvent(type, created_at, login, repo_name) ==
    [type |-> type, created_at |-> created_at, login |-> login,
     repo_name |-> repo_name, number |-> 0, action |-> "", commits |-> << >>,
     title |-> "", state |-> "", ref_type |-> "", ref |-> "", size |-> 0,
     is_pr |-> FALSE]

\* The records of the feeds: created_at sits on both window bounds and just
\* before the start; the filler record is the one after the end.
Pool ==
    { [RawEvent("PushEvent", end_time, "Alice", "r2") EXCEPT
          !.ref = "refs/heads/main", !.size = 2,
          !.commits = << Commit("fix bug", "b2"), Commit(" Add X", "c3") >>],
      [RawEvent("PushEvent", start_time, "alice", "") EXCEPT
          !.ref = "refs/heads/main", !.size = 5,
          !.commits = << Commit("", "d4"), Commit("Fix Bug", "abc123def456"),
                         Commit("Add x", ""), Commit("Add x", "e5"),
                         Commit("fix bug", "f6") >>],
      [RawEvent("PullRequestEvent", start_time, "bob", "r1") EXCEPT
          !.number = 123, !.action = "opened", !.title = "Add feature"],
      [RawEvent("PushEvent", start_time - 1, "alice", "r1") EXCEPT
          !.ref = "refs/heads/main", !.size = 1,
          !.commits = << Commit("Fix Bug", "abc123def456") >>] }

\* A filler record: an event newer than the window, as a newest-first feed
\* returns them ahead of the window's events.
Filler == RawEvent("WatchEvent", end_time + 60 * 60, "alice", "r1")

\* Sequences over S of length 0..n.
SeqUpTo(S, n) == UNION { [1..k -> S] : k \in 0..n }

\* The records of interest of one page: at most MaxRecs distinct records,
\* newest first as the feeds return them.
PageRecs ==
    { r \in SeqUpTo(Pool, MaxRecs) :
        \A i, j \in DOMAIN r :
            i < j => (r[i] # r[j] /\ r[i].created_at >= r[j].created_at) }

\* ------------------------------------------------------ event classifier

\* sha[:7] on the hashes of the model.
Sha7(s) == IF s = "abc123def456" THEN "abc123d" ELSE s

\* commit_key without the lower-casing.
commit_key_no_lower(message) == StrSpaceToUnderscore(message)

\* commit_key = message.lower().replace(" ", "_"), message already stripped.
commit_key(message) == StrSpaceToUnderscore(StrLower(message))

\* The commit loop of _process_push_event: acc is [commits, seen].
RECURSIVE push_commits(_, _, _)
push_commits(repo, commits, acc) ==
    IF commits = <<>> THEN acc
    ELSE LET c == Head(commits)
             message == StrStrip(c.message)
             sha == c.sha
             key == commit_key(message)
             next ==
                 IF message = "" \/ sha = "" THEN acc
                 ELSE IF key \notin acc.seen
                 THEN [commits |-> Append(acc.commits,
                                     [message |-> message, sha |-> Sha7(sha),
                                      full_sha |-> sha,
                                      link |-> "https://github.com/" \o repo
                                               \o "/commit/" \o sha]),
                       seen |-> acc.seen \cup {key}]
                 ELSE acc
         IN  push_commits(repo, Tail(commits), next)

\* ref.replace("refs/heads/", "")
BranchOf(ref) == IF ref = "refs/heads/main" THEN "main" ELSE ref

\* dict.update: the keys of d2 overwrite or extend those of d1.
update(d1, d2) ==
    [k \in DOMAIN d1 \cup DOMAIN d2 |-> IF k \in DOMAIN d2 THEN d2[k] ELSE d1[k]]

\* The dict _process_push_event returns, given its unique_commits.
push_processed(repo, raw, unique_commits) ==
    [branch |-> BranchOf(raw.ref),
     commit_count |-> raw.size,
     links |-> << "https://github.com/" \o repo \o "/tree/" \o BranchOf(raw.ref) >>,
     details |-> << "Pushed " \o ToString(raw.size) \o " commits to "
                    \o BranchOf(raw.ref) >>,
     commits |-> unique_commits]

\* _process_push_event with a dedup set of the event's own.
process_push_event_own_set(repo, raw, seen) ==
    LET r == push_commits(repo, raw.commits, [commits |-> <<>>, seen |-> {}])
    IN  [info |-> push_processed(repo, raw, r.commits), seen |-> seen]

\* _process_push_event: the processed keys and the dedup set after it.
process_push_event(repo, raw, seen) ==
    LET r == push_commits(repo, raw.commits, [commits |-> <<>>, seen |-> seen])
    IN  [info |-> push_processed(repo, raw, r.commits), seen |-> r.seen]

\* _process_pr_event
process_pr_event(repo, raw) ==
    [pr_number |-> raw.number,
     action |-> raw.action,
     title |-> raw.title,
     links |-> << "https://github.com/" \o repo \o "/pull/" \o ToString(raw.number) >>,
     details |-> << "PR #" \o ToString(raw.number) \o ": " \o raw.action
                    \o " - " \o raw.title >>]

\* _process_comment_event
process_comment_event(repo, raw) ==
    LET link_type == IF raw.is_pr THEN "pull" ELSE "issues"
    IN  [issue_number |-> raw.number,
         is_pull_request |-> raw.is_pr,
         links |-> << "https://github.com/" \o repo \o "/" \o link_type \o "/"
                      \o ToString(raw.number) >>,
         details |-> << "Commented on " \o (IF raw.is_pr THEN "PR" ELSE "issue")
                        \o " #" \o ToString(raw.number) >>]

\* _process_review_event
process_review_event(repo, raw) ==
    [pr_number |-> raw.number,
     review_state |-> raw.state,
     links |-> << "https://github.com/" \o repo \o "/pull/" \o ToString(raw.number) >>,
     details |-> << "Reviewed PR #" \o ToString(raw.number) \o ": " \o raw.state >>]

\* _process_ref_event: neither links nor commits among its keys.
process_ref_event(repo, raw) ==
    LET action == IF raw.type = "CreateEvent" THEN "Created" ELSE "Deleted"
    IN  [ref_type |-> raw.ref_type,
         ref |-> raw.ref,
         action |-> IF raw.type = "CreateEvent" THEN "created" ELSE "deleted",
         details |-> << action \o " " \o raw.ref_type \o " '" \o raw.ref \o "'" >>]

\* The dict _process_event starts from.
processed_defaults == [links |-> <<>>, details |-> <<>>, commits |-> <<>>]

\* _process_event without the defaults: the processor's dict alone.
process_event_no_defaults(repo, raw, seen) ==
    CASE raw.type = "PushEvent" -> process_push_event(repo, raw, seen)
      [] raw.type = "PullRequestEvent" ->
             [info |-> process_pr_event(repo, raw), seen |-> seen]
      [] raw.type = "IssueCommentEvent" ->
             [info |-> process_comment_event(repo, raw), seen |-> seen]
      [] raw.type = "PullRequestReviewEvent" ->
             [info |-> process_review_event(repo, raw), seen |-> seen]
      [] raw.type \in {"CreateEvent", "DeleteEvent"} ->
             [info |-> process_ref_event(repo, raw), seen |-> seen]
      [] OTHER -> [info |-> processed_defaults, seen |-> seen]

\* _process_event: the defaults updated with the dict of the type's
\* processor; info is the processed dict, seen the dedup set after it.
process_event(repo, raw, seen) ==
    CASE raw.type = "PushEvent" ->
             LET p == process_push_event(repo, raw, seen)
             IN  [info |-> update(processed_defaults, p.info), seen |-> p.seen]
      [] raw.type = "PullRequestEvent" ->
             [info |-> update(processed_defaults, process_pr_event(repo, raw)),
              seen |-> seen]
      [] raw.type = "IssueCommentEvent" ->
             [info |-> update(processed_defaults, process_comment_event(repo, raw)),
              seen |-> seen]
      [] raw.type = "PullRequestReviewEvent" ->
             [info |-> update(processed_defaults, process_review_event(repo, raw)),
              seen |-> seen]
      [] raw.type \in {"CreateEvent", "DeleteEvent"} ->
             [info |-> update(processed_defaults, process_ref_event(repo, raw)),
              seen |-> seen]
      [] OTHER -> [info |-> processed_defaults, seen |-> seen]

\* _matches_username
matches_username(actor_login, username) == StrLower(actor_login) = StrLower(username)

\* The GitHubEvent built from event_data for repository repo.
GitHubEvent(repo, raw, info) ==
    [event_type |-> raw.type, created_at |-> raw.created_at, repo |-> repo,
     actor |-> raw.login,
     payload |-> [commits |-> raw.commits, number |-> raw.number, action |-> raw.action],
     processed_info |-> info]

\* ------------------------------------------------------- page processing

\* The date-range test without its upper bound.
in_range_no_end(created_at) == start_time <= created_at

\* The date-range test of the event loops.
in_range(created_at) == start_time <= created_at /\ created_at <= end_time

\* The username test of _get_repo_events (`if username:` then the match).
passes_username(raw, username) ==
    Truthy(username) => matches_username(raw.login, username)

\* One iteration of `for event_data in data` in _get_repo_events.  st is
\* [filtered, seen, stopped]: stopped is the early `return events`.
repo_event_step(repo, username, st, raw) ==
    IF st.stopped THEN st
    ELSE IF ~in_range(raw.created_at)
    THEN (IF raw.created_at < start_time THEN [st EXCEPT !.stopped = TRUE] ELSE st)
    ELSE IF ~passes_username(raw, username) THEN st
    ELSE LET p == process_event(repo, raw, st.seen)
         IN  [st EXCEPT !.filtered = Append(@, GitHubEvent(repo, raw, p.info)),
                        !.seen = p.seen]

\* One iteration of `for event_data in data` in _get_user_events: the
\* repository comes from the record, and there is no username test.
user_event_step(username, st, raw) ==
    IF st.stopped THEN st
    ELSE IF ~in_range(raw.created_at)
    THEN (IF raw.created_at < start_time THEN [st EXCEPT !.stopped = TRUE] ELSE st)
    ELSE IF raw.repo_name = "" THEN st
    ELSE LET p == process_event(raw.repo_name, raw, st.seen)
         IN  [st EXCEPT !.filtered = Append(@, GitHubEvent(raw.repo_name, raw, p.info)),
                        !.seen = p.seen]

\* A page of data is `fill` filler records followed by recs.  Every filler
\* record takes the same branch of the loop body and leaves st unchanged,
\* so the loop over the fillers is one application of the step.
RECURSIVE repo_event_loop(_, _, _, _)
repo_event_loop(repo, username, st, recs) ==
    IF recs = <<>> THEN st
    ELSE repo_event_loop(repo, username,
                         repo_event_step(repo, username, st, Head(recs)), Tail(recs))

RECURSIVE user_event_loop(_, _, _)
user_event_loop(username, st, recs) ==
    IF recs = <<>> THEN st
    ELSE user_event_loop(username, user_event_step(username, st, Head(recs)), Tail(recs))

\* len(data) and data[-1] of a page.
data_len(data) == data.fill + Len(data.recs)
data_last(data) == IF data.recs # <<>> THEN data.recs[Len(data.recs)] ELSE Filler

\* The whole loop over a page, fillers first.
repo_page(repo, username, seen, data) ==
    LET st0 == [filtered |-> <<>>, seen |-> seen, stopped |-> FALSE]
        st1 == IF data.fill > 0 THEN repo_event_step(repo, username, st0, Filler) ELSE st0
    IN  repo_event_loop(repo, username, st1, data.recs)

user_page(username, seen, data) ==
    LET st0 == [filtered |-> <<>>, seen |-> seen, stopped |-> FALSE]
        st1 == IF data.fill > 0 THEN user_event_step(username, st0, Filler) ELSE st0
    IN  user_event_loop(username, st1, data.recs)

\* The pagination going on after a short page.
continues_after_short(data, page) ==
    /\ ~(data_last(data).created_at < start_time)
    /\ page + 1 <= page_limit

\* The pagination stopping one page short of the limit.
continues_after_one_short(data, page) ==
    /\ ~(data_len(data) < per_page)
    /\ ~(data_last(data).created_at < start_time)
    /\ page + 1 < page_limit

\* After a page that did not return early: whether the pagination goes on.
\* `if len(data) < per_page: break`, then `if data[-1].created_at <
\* start_time: break`, else page += 1 (and `while page <= 50`).
continues_after(data, page) ==
    /\ ~(data_len(data) < per_page)
    /\ ~(data_last(data).created_at < start_time)
    /\ page + 1 <= page_limit

\* ------------------------------------------------------------- the state

VARIABLES
    backend,        \* "http": standup_server/github.py; "cli": mcp_server_standup/github.py
    github_org,     \* GITHUB_ORG, or NoneVal
    github_repos,   \* GITHUB_REPOS, or NoneVal
    seen_commits,   \* self._seen_commits
    current_user,   \* self._current_user (CLI-backed only), or NoneVal
    call,           \* the get_activity call in progress: its locals and its place
    tool_call,      \* the tool call a server's dispatcher is handling
    command,        \* the run_mise_command call in progress
    other,          \* a second get_activity call on the same service, suspended
                    \* at its awaited external call while `call` runs
    report,         \* a collection on its way from the event processor through
                    \* the summary to StandupFormatter.format_standup_report
    dates,          \* a DateParser.parse_date call and the window of its result
    feed            \* the event feed of a repository, when it is a fixed one

vars == <<backend, github_org, github_repos, seen_commits, current_user, call,
          tool_call, command, other, report, dates, feed>>
config == <<backend, github_org, github_repos>>

\* The variables of the GitHubService, and for each part of the model the
\* variables of the other parts, which its actions leave alone.
service_vars == <<config, seen_commits, current_user, call>>
not_service == <<tool_call, command, other, report, dates, feed>>
not_dispatch == <<service_vars, command, other, report, dates, feed>>
not_command == <<service_vars, tool_call, other, report, dates, feed>>
not_report == <<config, current_user, call, tool_call, command, other, dates, feed>>
not_dates == <<service_vars, tool_call, command, other, report, feed>>

\* No fixed feed: every response is chosen when it is given.
NoFeed == [fill |-> 0, recs |-> <<>>]

\* No page response yet in the current feed.
NoResp == [ok |-> FALSE, len |-> 0, old |-> FALSE, none |-> TRUE]

\* The locals of a call that has not started.  The fields from arg_username
\* on record the arguments, the external calls made and what they returned,
\* as a test's mock would; the code does not read them.
\*   arg_username  the username argument, which the code overwrites
\*   source     where the repositories came from: "explicit", "env_repos",
\*              "org", "user_repos", "user_feed"; "none" before the choice
\*   listing    the listing calls made ("current_user", "org", "user_repos")
\*   queried    the feeds whose events were requested: repository names,
\*              and "user_feed"
\*   last       the last response of the current feed
\*   failed     [repo, events]: a caught failure on a page of that
\*              repository, with the events collected from its earlier pages
\*   ext_fail   whether a repository listing or an event request failed
\*   has_data   whether the current feed has returned a record of interest
\*   refetch    whether the dedup set held the key "fix_bug", left by an
\*              earlier call, when this call began
IdleCall ==
    [pc |-> "idle", username |-> NoneVal, repos |-> <<>>,
     repos_to_process |-> <<>>, idx |-> 0, page |-> 0,
     events |-> <<>>, activity |-> <<>>, result |-> <<>>, error |-> "",
     arg_username |-> NoneVal, source |-> "none", listing |-> {}, queried |-> {},
     last |-> NoResp, failed |-> {}, ext_fail |-> FALSE, has_data |-> FALSE,
     refetch |-> FALSE]

\* The values of the arguments and of the configuration.
Usernames == {NoneVal, "alice"}
RepoArgs == {<<>>, <<"r1", " r2">>, <<" ">>}
OrgValues == {NoneVal, "acme"}
ReposEnvValues == {NoneVal, "r1,r2"}
\* What a repository listing returns (fewer than per_page names).
RepoLists == {<<>>, <<"r2">>, <<"r2", "r1">>}

\* How an external call ends besides returning a well-formed body.
\*   http_error   httpx.HTTPError: error status, transport error, timeout
\*   exit_nonzero subprocess.CalledProcessError
\*   malformed    the body is not JSON: json.JSONDecodeError
\*   not_found    the executable is missing: FileNotFoundError
Failures == IF backend = "http" THEN {"http_error", "malformed"}
            ELSE {"exit_nonzero", "malformed", "not_found"}

\* The failures the `except` clauses around the external calls name.
Caught(outcome) ==
    IF backend = "http" THEN outcome = "http_error"
    ELSE outcome \in {"exit_nonzero", "malformed"}

\* The exception that leaves get_activity for an outcome no clause names.
ExceptionOf(outcome) ==
    CASE outcome = "malformed" -> "JSONDecodeError"
      [] outcome = "not_found" -> "FileNotFoundError"
      [] OTHER -> "HTTPError"

\* No exception.
NoException == [type |-> "none", arg |-> ""]

\* A dispatcher with no tool call to handle.  `raised` records the exception
\* the handler raised, as a test's mock would; the code does not read it.
NoToolCall ==
    [service |-> "none", pc |-> "idle", name |-> "", arguments |-> {},
     content |-> <<>>, propagated |-> NoException, raised |-> NoException]

\* No run_mise_command call.  `raised` records the exception a subprocess
\* call raised, as a test's mock would; `propagated` is the exception that
\* left run_mise_command.
NoCommand ==
    [pc |-> "idle", fn |-> "", args |-> <<>>, env |-> {}, result |-> NoneVal,
     raised |-> NoException, propagated |-> NoException, spawned |-> <<>>,
     env_result |-> [returncode |-> 0, stdout |-> {}]]

\* No parse_date call yet.  today is the day of datetime.now(), result the
\* day parse_date returned, window what get_utc_date_range made of it.
NoDates ==
    [pc |-> "idle", today |-> 0, expression |-> NoneVal, result |-> 0,
     raised |-> NoException, path |-> "", window |-> NoneVal]

\* No collection under way: events is activity.events, summary
\* activity.summary, format the format_type asked for and output what
\* format_standup_report returned.
NoReport ==
    [pc |-> "collecting", fetched |-> {}, events |-> <<>>, summary |-> NoneVal,
     format |-> NoneVal, output |-> NoneVal]

Init ==
    /\ backend \in {"http", "cli"}
    /\ github_org \in OrgValues
    /\ github_repos \in ReposEnvValues
    /\ seen_commits = {}
    /\ current_user = NoneVal
    /\ call = IdleCall
    /\ tool_call = NoToolCall
    /\ command = NoCommand
    /\ other = IdleCall
    /\ report = NoReport
    /\ dates = NoDates
    /\ feed = NoFeed

\* ------------------------------------------------------- get_activity

\* activity.events.sort(key=lambda x: x.created_at): a stable sort.
RECURSIVE insert_sorted(_, _)
insert_sorted(sorted, e) ==
    IF sorted = <<>> THEN <<e>>
    ELSE IF Head(sorted).created_at <= e.created_at
    THEN <<Head(sorted)>> \o insert_sorted(Tail(sorted), e)
    ELSE <<e>> \o sorted

RECURSIVE sort_events(_)
sort_events(evs) ==
    IF evs = <<>> THEN <<>>
    ELSE insert_sorted(sort_events(SubSeq(evs, 1, Len(evs) - 1)), evs[Len(evs)])

\* The two ValueErrors get_activity raises itself.
ConfigError == "ValueError: Either GITHUB_ORG or GITHUB_REPOS environment variable is required when not specifying repos"
UserError == "ValueError: Could not determine current GitHub user. Please provide a username explicitly."

Raise(c, exception) == [c EXCEPT !.pc = "raised", !.error = exception]

\* The return without the sort.
Return_unsorted(c) == [c EXCEPT !.pc = "returned", !.result = c.activity]

\* The tail of get_activity: sort the events and return the activity.
Return(c) == [c EXCEPT !.pc = "returned", !.result = sort_events(c.activity)]

\* `for repo in repos_to_process`: on to the first page of the first
\* repository, or to the return when there is none.
StartRepos(c, source, rtp) ==
    IF rtp = <<>>
    THEN Return([c EXCEPT !.source = source, !.repos_to_process = rtp])
    ELSE [c EXCEPT !.pc = "repo_events", !.source = source, !.repos_to_process = rtp,
                   !.idx = 1, !.page = 1, !.events = <<>>,
                   !.last = NoResp, !.has_data = FALSE]

\* _get_repo_events returned evs: activity.events.extend(events), then the
\* next repository or the return.
EndRepo(c, evs) ==
    LET c1 == [c EXCEPT !.activity = @ \o evs, !.events = <<>>]
    IN  IF c.idx < Len(c.repos_to_process)
        THEN [c1 EXCEPT !.idx = @ + 1, !.page = 1,
                        !.last = NoResp, !.has_data = FALSE]
        ELSE Return(c1)

\* The HTTP-backed choice with the configured list ahead of the organization.
ResolveHttp_env_first(c) ==
    IF c.repos # <<>> THEN StartRepos(c, "explicit", StripNonEmpty(c.repos))
    ELSE IF Truthy(github_repos)
    THEN StartRepos(c, "env_repos", StripNonEmpty(StrSplitComma(github_repos)))
    ELSE IF Truthy(github_org) THEN [c EXCEPT !.pc = "org_repos"]
    ELSE Raise(c, ConfigError)

\* The HTTP-backed choice going on with no repository where nothing is
\* configured.
ResolveHttp_no_error(c) ==
    IF c.repos # <<>> THEN StartRepos(c, "explicit", StripNonEmpty(c.repos))
    ELSE IF Truthy(github_org) THEN [c EXCEPT !.pc = "org_repos"]
    ELSE StartRepos(c, "env_repos",
                    IF Truthy(github_repos)
                    THEN StripNonEmpty(StrSplitComma(github_repos)) ELSE <<>>)

\* The choice of the repositories in the HTTP-backed get_activity, the
\* username known.
ResolveHttp(c) ==
    IF c.repos # <<>> THEN StartRepos(c, "explicit", StripNonEmpty(c.repos))
    ELSE IF Truthy(github_org) THEN [c EXCEPT !.pc = "org_repos"]
    ELSE IF Truthy(github_repos)
    THEN StartRepos(c, "env_repos", StripNonEmpty(StrSplitComma(github_repos)))
    ELSE Raise(c, ConfigError)

\* The choice of the repositories in the CLI-backed get_activity, the
\* username known (and not empty).
ResolveCli(c) ==
    IF c.repos = <<>>
    THEN IF Truthy(github_repos)
         THEN LET rtp == StripNonEmpty(StrSplitComma(github_repos))
              IN  IF rtp = <<>>
                  THEN Raise(c, ConfigError)
                  ELSE StartRepos(c, "env_repos", rtp)
         ELSE IF Truthy(github_org) THEN [c EXCEPT !.pc = "org_repos"]
         ELSE IF Truthy(c.username) THEN [c EXCEPT !.pc = "user_repos"]
         ELSE Raise(c, ConfigError)
    ELSE StartRepos(c, "explicit", StripNonEmpty(c.repos))

Resolve(c) == IF backend = "http" THEN ResolveHttp(c) ELSE ResolveCli(c)

\* get_activity without the resolution of the username.
GetActivity_no_resolution(username, repos) ==
    /\ call.pc = "idle"
    /\ seen_commits' = {}
    /\ call' = Resolve([IdleCall EXCEPT !.username = username, !.repos = repos,
                                        !.arg_username = username,
                                        !.refetch = "fix_bug" \in seen_commits])
    /\ UNCHANGED <<not_service, config, current_user>>

\* get_activity without the reset of the dedup set.
GetActivity_no_reset(username, repos) ==
    /\ call.pc = "idle"
    /\ seen_commits' = seen_commits
    /\ LET c == [IdleCall EXCEPT !.username = username, !.repos = repos,
                                 !.arg_username = username,
                                 !.refetch = "fix_bug" \in seen_commits]
       IN  IF backend = "cli" /\ ~Truthy(username)
           THEN IF current_user # NoneVal
                THEN call' = Resolve([c EXCEPT !.username = current_user])
                ELSE call' = [c EXCEPT !.pc = "current_user"]
           ELSE call' = Resolve(c)
    /\ UNCHANGED <<not_service, config, current_user>>

\* get_activity asking for the identity whatever an earlier call remembered.
GetActivity_no_cache(username, repos) ==
    /\ call.pc = "idle"
    /\ seen_commits' = {}
    /\ LET c == [IdleCall EXCEPT !.username = username, !.repos = repos,
                                 !.arg_username = username,
                                 !.refetch = "fix_bug" \in seen_commits]
       IN  IF backend = "cli" /\ ~Truthy(username)
           THEN call' = [c EXCEPT !.pc = "current_user"]
           ELSE call' = Resolve(c)
    /\ UNCHANGED <<not_service, config, current_user>>

\* get_activity up to its first external call.
GetActivity(username, repos) ==
    /\ call.pc = "idle"
    /\ seen_commits' = {}
    /\ LET c == [IdleCall EXCEPT !.username = username, !.repos = repos,
                                 !.arg_username = username,
                                 !.refetch = "fix_bug" \in seen_commits]
       IN  IF backend = "cli" /\ ~Truthy(username)
           THEN IF current_user # NoneVal
                THEN call' = Resolve([c EXCEPT !.username = current_user])
                ELSE call' = [c EXCEPT !.pc = "current_user"]
           ELSE call' = Resolve(c)
    /\ UNCHANGED <<not_service, config, current_user>>

\* get_current_user's `gh api user`, and get_activity on from its result.
\* login is the "login" of the body, NoneVal when the body has none.
GetCurrentUser(outcome, login) ==
    /\ call.pc = "current_user"
    /\ LET c == [call EXCEPT !.listing = @ \cup {"current_user"}]
       IN  IF outcome = "ok"
           THEN /\ current_user' = login
                /\ call' = IF Truthy(login)
                           THEN Resolve([c EXCEPT !.username = login])
                           ELSE Raise(c, UserError)
           ELSE /\ current_user' = current_user
                /\ call' = IF outcome \in {"exit_nonzero", "malformed"}
                           THEN Raise(c, UserError)
                           ELSE Raise(c, ExceptionOf(outcome))
    /\ UNCHANGED <<not_service, config, seen_commits>>

\* _get_org_repos and get_activity on from its result.
GetOrgRepos(outcome, names) ==
    /\ call.pc = "org_repos"
    /\ LET c == [call EXCEPT !.listing = @ \cup {"org"},
                             !.ext_fail = @ \/ outcome # "ok"]
           repos == IF outcome = "ok" THEN names ELSE <<>>
       IN  IF outcome # "ok" /\ ~Caught(outcome)
           THEN call' = Raise(c, ExceptionOf(outcome))
           ELSE IF backend = "cli" /\ repos = <<>>
           THEN call' = Raise(c, ConfigError)
           ELSE call' = StartRepos(c, "org", repos)
    /\ UNCHANGED <<not_service, config, seen_commits, current_user>>

\* _get_user_repos (CLI-backed) and get_activity on from its result: the
\* user's repositories, or the user feed when there is none.
GetUserRepos(outcome, names) ==
    /\ call.pc = "user_repos"
    /\ LET c == [call EXCEPT !.listing = @ \cup {"user_repos"},
                             !.ext_fail = @ \/ outcome # "ok"]
           repos == IF outcome = "ok" THEN names ELSE <<>>
       IN  IF outcome # "ok" /\ ~Caught(outcome)
           THEN call' = Raise(c, ExceptionOf(outcome))
           ELSE IF repos # <<>>
           THEN call' = StartRepos(c, "user_repos", repos)
           ELSE call' = [c EXCEPT !.pc = "user_events", !.source = "user_feed",
                                  !.page = 1, !.events = <<>>,
                                  !.last = NoResp, !.has_data = FALSE]
    /\ UNCHANGED <<not_service, config, seen_commits, current_user>>

\* ---------------------------------------------------------- event pages

\* The bodies a feed returns for page `page`: `fill` filler records, none
\* or as many as make the page full, then the records of interest.  The
\* feeds of the model are of two kinds: a feed with records of interest has
\* them in its first MaxDataPages pages and ends with the page after these
\* at the latest; a feed of filler records alone has any number of pages.
Pages(page, has_data) ==
    UNION { { [fill |-> f, recs |-> r] :
                f \in {0} \cup (IF page <= MaxDataPages \/ ~has_data
                                THEN {per_page - Len(r)} ELSE {}) } :
              r \in (IF page <= MaxDataPages THEN PageRecs ELSE {<<>>}) }

\* What `last` records of a response.
RespOf(outcome, data) ==
    [ok |-> outcome = "ok",
     len |-> IF outcome = "ok" THEN data_len(data) ELSE 0,
     old |-> outcome = "ok" /\ data_len(data) > 0
             /\ data_last(data).created_at < start_time,
     none |-> FALSE]

\* The failure of a page discarding the events of the earlier pages.
RepoEventsFailed_discard(c, repo) ==
    EndRepo([c EXCEPT !.failed = @ \cup {[repo |-> repo, events |-> c.events]}],
            <<>>)

\* The `except` clauses of _get_repo_events: the failure is logged, the
\* loop is left and the events of the earlier pages are returned.
RepoEventsFailed(c, repo) ==
    EndRepo([c EXCEPT !.failed = @ \cup {[repo |-> repo, events |-> c.events]}],
            c.events)

\* One request of _get_repo_events for the current repository, and the code
\* on from its response: the page loop's body, and when the pagination ends
\* the rest of get_activity up to its next external call.
GetRepoEvents(outcome, data) ==
    /\ call.pc = "repo_events"
    /\ LET repo == call.repos_to_process[call.idx]
           c == [call EXCEPT !.last = RespOf(outcome, data),
                             !.queried = @ \cup {repo},
                             !.ext_fail = @ \/ outcome # "ok",
                             !.has_data = @ \/ data.recs # <<>>]
           st == repo_page(repo, call.username, seen_commits, data)
           events == call.events \o st.filtered
       IN  IF outcome # "ok"
           THEN /\ seen_commits' = seen_commits
                /\ call' = IF Caught(outcome) THEN RepoEventsFailed(c, repo)
                           ELSE Raise(c, ExceptionOf(outcome))
           ELSE IF data_len(data) = 0
           THEN /\ seen_commits' = seen_commits
                /\ call' = EndRepo(c, call.events)
           ELSE /\ Len(call.activity) + Len(events) <= MaxEvents
                /\ seen_commits' = st.seen
                /\ call' = IF st.stopped THEN EndRepo(c, events)
                           ELSE IF continues_after(data, call.page)
                           THEN [c EXCEPT !.events = events, !.page = @ + 1]
                           ELSE EndRepo(c, events)
    /\ UNCHANGED <<not_service, config, current_user>>

\* One request of _get_user_events (CLI-backed), and the code on from its
\* response; when the pagination ends, the fallback branch of get_activity
\* sorts and returns.
GetUserEvents(outcome, data) ==
    /\ call.pc = "user_events"
    /\ LET c == [call EXCEPT !.last = RespOf(outcome, data),
                             !.queried = @ \cup {"user_feed"},
                             !.ext_fail = @ \/ outcome # "ok",
                             !.has_data = @ \/ data.recs # <<>>]
           st == user_page(call.username, seen_commits, data)
           events == call.events \o st.filtered
           done(evs) == Return([c EXCEPT !.activity = @ \o evs, !.events = <<>>])
       IN  IF outcome # "ok"
           THEN /\ seen_commits' = seen_commits
                /\ call' = IF Caught(outcome) THEN done(call.events)
                           ELSE Raise(c, ExceptionOf(outcome))
           ELSE IF data_len(data) = 0
           THEN /\ seen_commits' = seen_commits
                /\ call' = done(call.events)
           ELSE /\ Len(call.activity) + Len(events) <= MaxEvents
                /\ seen_commits' = st.seen
                /\ call' = IF st.stopped THEN done(events)
                           ELSE IF continues_after(data, call.page)
                           THEN [c EXCEPT !.events = events, !.page = @ + 1]
                           ELSE done(events)
    /\ UNCHANGED <<not_service, config, current_user>>

\* The caller takes the activity, or the exception, of a finished call; the
\* service is ready for its next call.
Complete ==
    /\ call.pc \in {"returned", "raised"}
    /\ call' = IdleCall
    /\ UNCHANGED <<not_service, config, seen_commits, current_user>>

EmptyData == [fill |-> 0, recs |-> <<>>]

Next ==
    \/ \E username \in Usernames, repos \in RepoArgs : GetActivity(username, repos)
    \/ \E login \in {"alice", NoneVal} : GetCurrentUser("ok", login)
    \/ \E f \in Failures : GetCurrentUser(f, NoneVal)
    \/ \E names \in RepoLists : GetOrgRepos("ok", names)
    \/ \E f \in Failures : GetOrgRepos(f, <<>>)
    \/ \E names \in RepoLists : GetUserRepos("ok", names)
    \/ \E f \in Failures : GetUserRepos(f, <<>>)
    \/ \E data \in Pages(call.page, call.has_data) : GetRepoEvents("ok", data)
    \/ \E f \in Failures : GetRepoEvents(f, EmptyData)
    \/ \E data \in Pages(call.page, call.has_data) : GetUserEvents("ok", data)
    \/ \E f \in Failures : GetUserEvents(f, EmptyData)
    \/ Complete

Spec == Init /\ [][Next]_vars

\* ------------------------------------------------- interleaved fetches

\* Two get_activity calls on one HTTP-backed service.  The event loop runs
\* one coroutine at a time and changes coroutine only at an await, that is
\* between two actions of the model: `call` is the coroutine that runs
\* next, `other` the one that waits.
Switch ==
    /\ call' = other
    /\ other' = call
    /\ call # other
    /\ UNCHANGED <<config, seen_commits, current_user, tool_call, command, report, dates,
                   feed>>

\* The responses of the interleaved calls: short pages, so that a feed has
\* one page.
ShortPages == { [fill |-> 0, recs |-> r] : r \in PageRecs }

InitInterleave ==
    /\ backend = "http"
    /\ github_org = NoneVal
    /\ github_repos = NoneVal
    /\ seen_commits = {}
    /\ current_user = NoneVal
    /\ call = IdleCall
    /\ tool_call = NoToolCall
    /\ command = NoCommand
    /\ other = IdleCall
    /\ report = NoReport
    /\ dates = NoDates
    /\ feed = NoFeed

NextInterleave ==
    \/ \E repos \in {<<"r1", " r2">>} : GetActivity("alice", repos)
    \/ \E data \in ShortPages : GetRepoEvents("ok", data)
    \/ Complete
    \/ Switch

SpecInterleave == InitInterleave /\ [][NextInterleave]_vars

\* ------------------------------------------------------- a fixed feed

\* get_activity over repositories whose feed does not change while it is
\* read: feed.fill records newer than the window followed by feed.recs,
\* newest first.  Every request for a page of any repository is answered
\* from it.

\* The numbers of newer records: none, a page less one, a page, and what
\* leaves the last places of page 50, or the first of page 51, to the
\* records of interest.
FeedFills ==
    {0, per_page - 1, per_page, page_limit * per_page - MaxRecs,
     page_limit * per_page - 1}

Feeds == { [fill |-> f, recs |-> r] : f \in FeedFills, r \in PageRecs }

\* ?page=<page>&per_page=100 of the feed f: its records (page-1)*100+1 to
\* page*100.
page_of(f, page) ==
    LET lo == (page - 1) * per_page
        hi == page * per_page
        fill == IF f.fill <= lo THEN 0
                ELSE IF f.fill >= hi THEN per_page ELSE f.fill - lo
        a == IF lo - f.fill + 1 > 1 THEN lo - f.fill + 1 ELSE 1
        b == IF hi - f.fill < Len(f.recs) THEN hi - f.fill ELSE Len(f.recs)
    IN  [fill |-> fill, recs |-> IF a <= b THEN SubSeq(f.recs, a, b) ELSE <<>>]

\* The repos argument: one repository, or the same one named twice.
FeedRepoArgs == {<<"r1">>, <<"r1", "r1">>}

InitFeed ==
    /\ backend \in {"http", "cli"}
    /\ github_org = NoneVal
    /\ github_repos = NoneVal
    /\ seen_commits = {}
    /\ current_user = NoneVal
    /\ call = IdleCall
    /\ tool_call = NoToolCall
    /\ command = NoCommand
    /\ other = IdleCall
    /\ report = NoReport
    /\ dates = NoDates
    /\ feed \in Feeds

NextFeed ==
    \/ \E username \in Usernames, repos \in FeedRepoArgs : GetActivity(username, repos)
    \/ GetCurrentUser("ok", "alice")
    \/ GetRepoEvents("ok", page_of(feed, call.page))
    \/ \E f \in Failures : GetRepoEvents(f, EmptyData)
    \/ Complete

SpecFeed == InitFeed /\ [][NextFeed]_vars

\* ------------------------------------------------- pagination to its end

\* get_activity with an organization configured, every external call
\* answering: the HTTP-backed _get_org_repos asks for the listing page by
\* page, the CLI-backed one in a single `gh api --paginate` call.

\* The full pages of a listing whose names the model keeps.  The loop of
\* _get_org_repos reads neither its page number nor its list, so that the
\* states past these pages differ in nothing the code reads: the model
\* keeps of them the parity of the number of pages read.
MaxListPages == 1

\* A full page of a repository listing: per_page names.
FullPage == [i \in 1..per_page |-> "r0"]

\* One request of the HTTP-backed _get_org_repos, and the code on from its
\* response: `if not data: break`, repos.extend, `if len(data) < per_page:
\* break`, page += 1; at the end of the loop get_activity goes on with the
\* names.  call.page counts the pages read, call.repos_to_process is repos.
GetOrgReposPage(outcome, full, names) ==
    /\ backend = "http"
    /\ call.pc = "org_repos"
    /\ LET c == [call EXCEPT !.listing = @ \cup {"org"},
                             !.ext_fail = @ \/ outcome # "ok"]
           repos == call.repos_to_process
       IN  IF outcome # "ok"
           THEN call' = IF Caught(outcome) THEN StartRepos(c, "org", repos)
                        ELSE Raise(c, ExceptionOf(outcome))
           ELSE IF ~full
           THEN call' = StartRepos(c, "org", repos \o names)
           ELSE call' = [c EXCEPT
                           !.repos_to_process =
                               IF call.page < MaxListPages THEN repos \o FullPage
                               ELSE repos,
                           !.page = IF call.page <= MaxListPages THEN call.page + 1
                                    ELSE MaxListPages]
    /\ UNCHANGED <<not_service, config, seen_commits, current_user>>

\* The event pages of these feeds: none, or a full page of records newer
\* than the window.
FullOrEmpty == {EmptyData, [fill |-> per_page, recs |-> <<>>]}

InitLive ==
    /\ backend \in {"http", "cli"}
    /\ github_org = "acme"
    /\ github_repos = NoneVal
    /\ seen_commits = {}
    /\ current_user = NoneVal
    /\ call = IdleCall
    /\ tool_call = NoToolCall
    /\ command = NoCommand
    /\ other = IdleCall
    /\ report = NoReport
    /\ dates = NoDates
    /\ feed = NoFeed

NextLive ==
    \/ \E repos \in {<<>>, <<"r1">>} : GetActivity("alice", repos)
    \/ \E names \in RepoLists : GetOrgReposPage("ok", FALSE, names)
    \/ GetOrgReposPage("ok", TRUE, <<>>)
    \/ \E f \in Failures : GetOrgReposPage(f, FALSE, <<>>)
    \/ backend = "cli" /\ \E names \in RepoLists : GetOrgRepos("ok", names)
    \/ backend = "cli" /\ \E f \in Failures : GetOrgRepos(f, <<>>)
    \/ \E data \in FullOrEmpty : GetRepoEvents("ok", data)
    \/ \E f \in Failures : GetRepoEvents(f, EmptyData)
    \/ Complete

\* Every external call returns: a call that waits for a response goes on.
SpecLive == InitLive /\ [][NextLive]_vars /\ WF_vars(NextLive)

\* ------------------------------------------------------- tool dispatch

\* The names the mise server maps to a handler.
TOOL_HANDLERS ==
    {"mise_install", "mise_uninstall", "mise_use", "mise_list",
     "mise_outdated", "mise_upgrade", "mise_current", "mise_exec",
     "mise_which", "mise_env", "mise_run"}

\* The names the standup server's handle_call_tool compares with.
StandupTools ==
    {"get_standup_summary", "get_github_activity", "get_workday_date",
     "format_standup_report"}

\* The names and the arguments (the keys present) a client sends.
ToolNames == TOOL_HANDLERS \cup StandupTools \cup {"bogus"}
ArgumentKeys == {"tool", "command", "date", "date_expression", "github_activity"}
ArgumentSets == {{}} \cup { {k} : k \in ArgumentKeys }

\* The key a handler subscripts its arguments with before anything else,
\* NoneVal for a handler that subscripts with none.
RequiredKey(name) ==
    CASE name \in {"mise_install", "mise_uninstall", "mise_use"} -> "tool"
      [] name \in {"mise_exec", "mise_which", "mise_run"} -> "command"
      [] name = "get_github_activity" -> "date"
      [] name = "get_workday_date" -> "date_expression"
      [] name = "format_standup_report" -> "github_activity"
      [] OTHER -> NoneVal

\* What a handler returns, and what it raises besides the KeyError of a
\* missing argument.
HandlerTexts == {"Command completed successfully", "Error: Command failed"}
HandlerExceptions ==
    {[type |-> "Exception", arg |-> "Unexpected error"],
     [type |-> "ValueError", arg |-> "Could not parse date"],
     [type |-> "RuntimeError", arg |-> ""]}

\* str(e): the argument of the exception, its repr for a KeyError.
str(e) == IF e.type = "KeyError" THEN "'" \o e.arg \o "'" ELSE e.arg

\* return [TextContent(type="text", text=text)]
Respond(tc, text) == [tc EXCEPT !.pc = "responded", !.content = <<text>>]

\* The exception leaves the dispatcher for the transport.
Propagate(tc, e) == [tc EXCEPT !.pc = "propagated", !.propagated = e]

\* The mise dispatcher with no `except` clause.
call_tool_except_none(tc, e) == Propagate(tc, e)

\* `except Exception as e` of the mise server's call_tool.
call_tool_except(tc, e) ==
    Respond(tc, "Error executing " \o tc.name \o ": " \o str(e))

\* `except Exception as e` of the standup server's handle_call_tool.
handle_call_tool_except(tc, e) == Respond(tc, "Error: " \o str(e))

Except(tc, e) ==
    IF tc.service = "mise" THEN call_tool_except(tc, e)
    ELSE handle_call_tool_except(tc, e)

\* The handler up to its first external call: the KeyError of a missing
\* argument is raised before it.
StartHandler(tc) ==
    IF RequiredKey(tc.name) \notin ({NoneVal} \cup tc.arguments)
    THEN LET e == [type |-> "KeyError", arg |-> RequiredKey(tc.name)]
         IN  Except([tc EXCEPT !.raised = e], e)
    ELSE [tc EXCEPT !.pc = "handler"]

\* The `try` body of the mise server's call_tool.
call_tool(tc) ==
    IF tc.name \in TOOL_HANDLERS THEN StartHandler(tc)
    ELSE Respond(tc, "Unknown tool: " \o tc.name)

\* The `try` body of the standup server's handle_call_tool.
handle_call_tool(tc) ==
    IF tc.name \in StandupTools THEN StartHandler(tc)
    ELSE Except(tc, [type |-> "ValueError", arg |-> "Unknown tool: " \o tc.name])

\* A server takes a tool call from its transport.
CallTool(service, name, arguments) ==
    /\ tool_call.pc = "idle"
    /\ LET tc == [NoToolCall EXCEPT !.service = service, !.name = name,
                                    !.arguments = arguments]
       IN  tool_call' = IF service = "mise" THEN call_tool(tc)
                        ELSE handle_call_tool(tc)
    /\ UNCHANGED not_dispatch

\* The handler returns its text block.
HandlerReturns(text) ==
    /\ tool_call.pc = "handler"
    /\ tool_call' = Respond(tool_call, text)
    /\ UNCHANGED not_dispatch

\* The handler raises.
HandlerRaises(e) ==
    /\ tool_call.pc = "handler"
    /\ tool_call' = Except([tool_call EXCEPT !.raised = e], e)
    /\ UNCHANGED not_dispatch

\* The transport has the outcome of the tool call.
ToolCallDone ==
    /\ tool_call.pc \in {"responded", "propagated"}
    /\ tool_call' = NoToolCall
    /\ UNCHANGED not_dispatch

\* The two servers on their own: the standup server's GitHubService is the
\* CLI-backed one, constructed and not called.
InitDispatch ==
    /\ backend = "cli"
    /\ github_org = NoneVal
    /\ github_repos = NoneVal
    /\ seen_commits = {}
    /\ current_user = NoneVal
    /\ call = IdleCall
    /\ tool_call = NoToolCall
    /\ command = NoCommand
    /\ other = IdleCall
    /\ report = NoReport
    /\ dates = NoDates
    /\ feed = NoFeed

NextDispatch ==
    \/ \E service \in {"mise", "standup"}, name \in ToolNames,
          arguments \in ArgumentSets : CallTool(service, name, arguments)
    \/ \E text \in HandlerTexts : HandlerReturns(text)
    \/ \E e \in HandlerExceptions : HandlerRaises(e)
    \/ ToolCallDone

SpecDispatch == InitDispatch /\ [][NextDispatch]_vars

\* --------------------------------------------------- run_mise_command

\* The argument lists of the handlers' calls.
CommandArgs == {<<"list">>, <<"install", "python@3.11">>, <<"env", "-s", "bash">>}

\* The command lines given to run_command_with_mise_env.
ShellCommands == {<<"python --version">>}

\* A line of the stdout of `mise env -s bash`: whether it starts with
\* 'export ', whether the rest holds an '=', the text before the first '='
\* and the text after it.
EnvLines ==
    {[export |-> TRUE, eq |-> TRUE, key |-> "PATH", raw |-> "\"/opt/mise/bin\""],
     [export |-> TRUE, eq |-> TRUE, key |-> "NODE", raw |-> "'20"],
     [export |-> TRUE, eq |-> TRUE, key |-> "LANG", raw |-> "'en'"],
     [export |-> TRUE, eq |-> FALSE, key |-> "", raw |-> ""],
     [export |-> FALSE, eq |-> TRUE, key |-> "HOME", raw |-> "/root"]}

\* value[1:-1] when the value starts and ends with the same quote.
Unquote(raw) ==
    CASE raw = "\"/opt/mise/bin\"" -> "/opt/mise/bin"
      [] raw = "'en'" -> "en"
      [] OTHER -> raw

\* The loop over the lines of the stdout: the variables it sets in env.
parse_env(lines) ==
    { [key |-> l.key, value |-> Unquote(l.raw)] :
          l \in { x \in lines : x.export /\ x.eq } }

\* How a subprocess.run ends: the process exits, or the call raises.
Exit(rc, out, err) ==
    [kind |-> "exit", returncode |-> rc, stdout |-> out, stderr |-> err,
     e |-> NoException]
Raises(type, arg) ==
    [kind |-> "raise", e |-> [type |-> type, arg |-> arg]]

\* The external program never answers.
Hangs ==
    [kind |-> "hang", e |-> NoException]

\* The timeout in seconds subprocess.run is given for the environment query
\* (0: none is given) and for the command.
env_timeout == 0
run_timeout == 30

\* subprocess.run on a program that does o: with a timeout a program that
\* never answers is killed and TimeoutExpired raised; without one the call
\* does not return.
subprocess_run(o, timeout) ==
    IF o.kind = "hang" /\ timeout > 0
    THEN Raises("TimeoutExpired", "Command timed out")
    ELSE o

\* os.environ of the server process.
os_environ == [PATH |-> "/usr/bin", HOME |-> "/root", LANG |-> "C"]

\* The exit codes of a process: 0, an error, a death by signal.
ReturnCodes == {0, 1, 0 - 1, 0 - 9}

\* `mise env -s bash` is run with no timeout: it raises no TimeoutExpired.
EnvOutcomes ==
    { Exit(0, lines, "") : lines \in SUBSET EnvLines }
        \cup {Exit(1, {}, "mise ERROR"),
              Exit(1, EnvLines, "mise WARN"),
              Raises("FileNotFoundError", "No such file or directory: 'mise'"),
              Raises("PermissionError", "Permission denied: 'mise'"),
              Hangs}

RunOutcomes ==
    { Exit(rc, out, err) :
          rc \in ReturnCodes, out \in {"", "python 3.11.0"},
          err \in {"", "mise WARN"} }
        \cup {Hangs,
              Raises("FileNotFoundError", "No such file or directory: 'mise'"),
              Raises("UnicodeDecodeError", "invalid start byte")}

\* The result dict of a subprocess that ran to its end.
completed_result(o) ==
    [success |-> o.returncode = 0, stdout |-> o.stdout, stderr |-> o.stderr,
     returncode |-> o.returncode]

\* The result dict of the three `except` clauses.
failed_result(stderr) ==
    [success |-> FALSE, stdout |-> "", stderr |-> stderr, returncode |-> 0 - 1]

CommandReturn(cmd, result) == [cmd EXCEPT !.pc = "returned", !.result = result]

\* run_mise_command with the `except TimeoutExpired` clause alone.
command_except_timeout_only(cmd, e) ==
    IF e.type = "TimeoutExpired"
    THEN CommandReturn([cmd EXCEPT !.raised = e],
                       failed_result("Command timed out after 30 seconds"))
    ELSE [cmd EXCEPT !.pc = "raised", !.raised = e, !.propagated = e]

\* The `except` clauses of run_mise_command, in their order.
command_except(cmd, e) ==
    CommandReturn([cmd EXCEPT !.raised = e],
        CASE e.type = "TimeoutExpired" ->
                 failed_result("Command timed out after 30 seconds")
          [] e.type = "FileNotFoundError" ->
                 failed_result("mise command not found. Please ensure mise is installed and in PATH.")
          [] OTHER -> failed_result("Error running command: " \o str(e)))

\* The `except` clauses of run_command_with_mise_env: no clause for
\* FileNotFoundError.
shell_except(cmd, e) ==
    CommandReturn([cmd EXCEPT !.raised = e],
        IF e.type = "TimeoutExpired"
        THEN failed_result("Command timed out after 30 seconds")
        ELSE failed_result("Error running command: " \o str(e)))

\* The except clauses of the function called.
except_of(cmd, e) ==
    IF cmd.fn = "run_mise_command" THEN command_except(cmd, e) ELSE shell_except(cmd, e)

\* The environment of the command as the parsed variables alone.
merged_env_exported_only(exported) ==
    [k \in { x.key : x \in exported } |-> (CHOOSE x \in exported : x.key = k).value]

\* env = os.environ.copy() with the variables parsed set in it.
merged_env(exported) ==
    [k \in DOMAIN os_environ \cup { x.key : x \in exported } |->
        IF \E x \in exported : x.key = k
        THEN (CHOOSE x \in exported : x.key = k).value
        ELSE os_environ[k]]

\* A call of subprocess.run that passes no timeout.
Spawn_no_timeout(argv, shell, timeout, env) ==
    [argv |-> argv, shell |-> shell, capture_output |-> TRUE, timeout |-> 0,
     env |-> env]

\* A call of subprocess.run: env is NoneVal when the argument is not given.
Spawn(argv, shell, timeout, env) ==
    [argv |-> argv, shell |-> shell, capture_output |-> TRUE, timeout |-> timeout,
     env |-> env]

\* A handler calls run_mise_command(args): on to its first subprocess.
RunMiseCommand(args) ==
    /\ command.pc = "idle"
    /\ command' = [NoCommand EXCEPT !.pc = "env", !.fn = "run_mise_command",
                                    !.args = args]
    /\ UNCHANGED not_command

\* A caller calls run_command_with_mise_env(command): args is the command
\* line, handed to the shell.
RunCommandWithMiseEnv(args) ==
    /\ command.pc = "idle"
    /\ command' = [NoCommand EXCEPT !.pc = "env", !.fn = "run_command_with_mise_env",
                                    !.args = args]
    /\ UNCHANGED not_command

\* subprocess.run(["mise", "env", "-s", "bash"]) and the parsing of its
\* stdout, up to the second subprocess.
MiseEnv(o) ==
    /\ command.pc = "env"
    /\ LET r == subprocess_run(o, env_timeout)
           started == [command EXCEPT !.spawned =
                          Append(@, Spawn(<<"mise", "env", "-s", "bash">>, FALSE,
                                          env_timeout, NoneVal))]
       IN  command' =
              IF r.kind = "hang" THEN [started EXCEPT !.pc = "blocked"]
              ELSE IF r.kind = "raise" THEN except_of(started, r.e)
              ELSE [started EXCEPT !.pc = "run",
                        !.env_result = [returncode |-> r.returncode, stdout |-> r.stdout],
                        !.env = IF r.returncode = 0 THEN parse_env(r.stdout) ELSE {}]
    /\ UNCHANGED not_command

\* subprocess.run(["mise"] + args, timeout=30, env=env), or
\* subprocess.run(command, shell=True, timeout=30, env=env), and the return.
MiseRun(o) ==
    /\ command.pc = "run"
    /\ LET r == subprocess_run(o, run_timeout)
           started == [command EXCEPT !.spawned =
                          Append(@, IF command.fn = "run_mise_command"
                                    THEN Spawn(<<"mise">> \o command.args, FALSE,
                                               run_timeout, merged_env(command.env))
                                    ELSE Spawn(command.args, TRUE, run_timeout,
                                               merged_env(command.env)))]
       IN  command' =
              IF r.kind = "hang" THEN [started EXCEPT !.pc = "blocked"]
              ELSE IF r.kind = "raise" THEN except_of(started, r.e)
              ELSE CommandReturn(started, completed_result(r))
    /\ UNCHANGED not_command

\* The handler has the result (or the exception).
CommandDone ==
    /\ command.pc \in {"returned", "raised"}
    /\ command' = NoCommand
    /\ UNCHANGED not_command

InitCommand ==
    /\ backend = "cli"
    /\ github_org = NoneVal
    /\ github_repos = NoneVal
    /\ seen_commits = {}
    /\ current_user = NoneVal
    /\ call = IdleCall
    /\ tool_call = NoToolCall
    /\ command = NoCommand
    /\ other = IdleCall
    /\ report = NoReport
    /\ dates = NoDates
    /\ feed = NoFeed

NextCommand ==
    \/ \E args \in CommandArgs : RunMiseCommand(args)
    \/ \E args \in ShellCommands : RunCommandWithMiseEnv(args)
    \/ \E o \in EnvOutcomes : MiseEnv(o)
    \/ \E o \in RunOutcomes : MiseRun(o)
    \/ CommandDone

SpecCommand == InitCommand /\ [][NextCommand]_vars

\* Every step of the functions is taken when it can be: a subprocess that
\* answers is answered to, a timeout that is set expires.
SpecCommandLive == SpecCommand /\ WF_vars(NextCommand)

\* --------------------------------------------------------- standup report

\* A report is built from a collection as get_activity returns it: events
\* processed in the order the repositories delivered them, then sorted by
\* created_at, then summarized.  The records the repositories deliver:
\* repo_name is the repository the record comes from.
At(k) == start_time + k

ReportPool ==
    { [RawEvent("PushEvent", At(1), "alice", "r1") EXCEPT
          !.ref = "refs/heads/main", !.size = 1,
          !.commits = << Commit("fix bug", "b2") >>],
      [RawEvent("PushEvent", At(2), "alice", "r1") EXCEPT
          !.ref = "refs/heads/main", !.size = 2,
          !.commits = << Commit("Fix Bug", "abc123def456"), Commit(" Add X", "c3") >>],
      [RawEvent("PushEvent", At(3), "alice", "r1") EXCEPT
          !.ref = "refs/heads/main", !.size = 3,
          !.commits = << Commit("Add x", "e5"), Commit("refactor", "a7"),
                         Commit("docs", "d8") >>],
      [RawEvent("PushEvent", At(4), "alice", "r2") EXCEPT
          !.ref = "refs/heads/main", !.size = 1,
          !.commits = << Commit("fix bug", "f6") >>],
      [RawEvent("PullRequestEvent", At(5), "alice", "r1") EXCEPT
          !.number = 1, !.action = "opened", !.title = "Add feature"],
      [RawEvent("PullRequestEvent", At(6), "alice", "r1") EXCEPT
          !.number = 1, !.action = "reopened", !.title = "Add feature"],
      [RawEvent("PullRequestEvent", At(7), "alice", "r1") EXCEPT
          !.number = 1, !.action = "closed", !.title = "Add feature"],
      [RawEvent("PullRequestEvent", At(8), "alice", "r2") EXCEPT
          !.number = 2, !.action = "merged", !.title = "Fix Bug"],
      [RawEvent("IssueCommentEvent", At(9), "alice", "r1") EXCEPT
          !.number = 1, !.is_pr = TRUE, !.action = "created"],
      [RawEvent("IssueCommentEvent", At(10), "alice", "r2") EXCEPT
          !.number = 4, !.is_pr = FALSE, !.action = "created"],
      [RawEvent("PullRequestReviewEvent", At(11), "alice", "r1") EXCEPT
          !.number = 1, !.state = "changes_requested"],
      [RawEvent("PullRequestReviewEvent", At(12), "alice", "r1") EXCEPT
          !.number = 1, !.state = "approved"],
      [RawEvent("PullRequestReviewEvent", At(12), "alice", "r2") EXCEPT
          !.number = 1, !.state = "commented"],
      [RawEvent("PullRequestReviewCommentEvent", At(13), "alice", "r1") EXCEPT
          !.number = 1],
      [RawEvent("CreateEvent", At(14), "alice", "r1") EXCEPT
          !.ref_type = "branch", !.ref = "feature"],
      [RawEvent("CreateEvent", At(15), "alice", "r1") EXCEPT
          !.ref_type = "tag", !.ref = "v1"],
      [RawEvent("DeleteEvent", At(16), "alice", "r1") EXCEPT
          !.ref_type = "branch", !.ref = "feature"],
      RawEvent("WatchEvent", At(17), "alice", "r2") }

\* dict.get(k, default)
get(d, k, default) == IF k \in DOMAIN d THEN d[k] ELSE default

\* The elements of xs in order of first appearance (the key order of a dict
\* filled while going through xs).
RECURSIVE first_seen(_)
first_seen(xs) ==
    IF xs = <<>> THEN <<>>
    ELSE LET init == first_seen(SubSeq(xs, 1, Len(xs) - 1))
             x == xs[Len(xs)]
         IN  IF \E i \in DOMAIN init : init[i] = x THEN init ELSE Append(init, x)

\* The concatenation of a sequence of sequences (list.extend in a loop).
RECURSIVE extend_all(_)
extend_all(xss) ==
    IF xss = <<>> THEN <<>> ELSE Head(xss) \o extend_all(Tail(xss))

\* The orders in which list(set) may give the elements of S.
ListsOf(S) == { xs \in [1..Cardinality(S) -> S] : \A x \in S : \E i \in DOMAIN xs : xs[i] = x }

\* sorted() on repository names.
StrLessEq(a, b) == a = b \/ (a = "r1" /\ b = "r2")
sorted(xs) ==
    CHOOSE ys \in ListsOf({ xs[i] : i \in DOMAIN xs }) :
        \A i, j \in DOMAIN ys : i < j => StrLessEq(ys[i], ys[j])

\* The commit_count loop of _generate_summary counting one per PushEvent.
sum_commit_count_per_push(evs) ==
    Len(SelectSeq(evs, LAMBDA e : e.event_type = "PushEvent"))

\* The commit_count loop of _generate_summary.
RECURSIVE sum_commit_count(_)
sum_commit_count(evs) ==
    IF evs = <<>> THEN 0
    ELSE (IF Head(evs).event_type = "PushEvent"
          THEN Len(get(Head(evs).processed_info, "commits", <<>>)) ELSE 0)
         + sum_commit_count(Tail(evs))

\* _generate_summary; listing is the order list(set) gives the repositories.
generate_summary(evs, listing) ==
    [total_events |-> Len(evs),
     event_types |->
         [t \in { evs[i].event_type : i \in DOMAIN evs } |->
             Len(SelectSeq(evs, LAMBDA e : e.event_type = t))],
     repositories |-> listing,
     commit_count |-> sum_commit_count(evs),
     pr_count |-> Len(SelectSeq(evs, LAMBDA e : e.event_type = "PullRequestEvent"))]

\* ---- the lines of a report

\* A line is a sequence of segments: plain text, the markers ** and *, and
\* markdown links [label](url).  kind names the f-string that produced the
\* line, of the repository or pull request it was produced for.
Text(s) == [k |-> "text", s |-> s]
Bold == [k |-> "**"]
Star == [k |-> "*"]
Link(label, url) == [k |-> "link", label |-> label, url |-> url]
Line(kind, of, segs) == [kind |-> kind, of |-> of, segs |-> segs]

\* str.title() on the actions that reach it.
StrTitle(s) ==
    CASE s = "closed" -> "Closed"
      [] s = "merged" -> "Merged"
      [] OTHER -> s

Min(a, b) == IF a <= b THEN a ELSE b

\* _group_significant_events
group_significant_events(evs) ==
    [commits |->
         SelectSeq(evs, LAMBDA e :
             /\ e.event_type = "PushEvent"
             /\ get(e.processed_info, "commits", <<>>) # <<>>),
     pull_requests |->
         SelectSeq(evs, LAMBDA e : e.event_type = "PullRequestEvent"),
     reviews |->
         SelectSeq(evs, LAMBDA e :
             e.event_type \in {"PullRequestReviewEvent", "PullRequestReviewCommentEvent"}),
     other |->
         SelectSeq(evs, LAMBDA e :
             e.event_type \in {"IssueCommentEvent", "CreateEvent"})]

\* The lines _format_commit_items appends for one commits_by_repo entry.
commit_lines(repo, commits) ==
    IF Len(commits) = 1
    THEN << Line("committed", repo,
                 << Text("- Committed "), Bold, Text(commits[1].message), Bold,
                    Text(" to "), Link(repo, commits[1].link) >>) >>
    ELSE << Line("made", repo,
                 << Text("- Made "), Bold, Text(ToString(Len(commits)) \o " commits"),
                    Bold, Text(" to "), Link(repo, "https://github.com/" \o repo) >>) >>
         \o [i \in 1..Min(3, Len(commits)) |->
                Line("commit", repo,
                     << Text("  - " \o commits[i].message \o " ("),
                        Link(commits[i].sha, commits[i].link), Text(")") >>)]
         \o (IF Len(commits) > 3
             THEN << Line("more", repo,
                          << Text("  - "), Star,
                             Text("(and " \o ToString(Len(commits) - 3) \o " more)"),
                             Star >>) >>
             ELSE <<>>)

\* _format_commit_items with one commits_by_repo entry per event.
format_commit_items_per_event(evs) ==
    extend_all([i \in DOMAIN evs |->
        commit_lines(evs[i].repo, get(evs[i].processed_info, "commits", <<>>))])

\* _format_commit_items
format_commit_items(evs) ==
    LET repos == first_seen([i \in DOMAIN evs |-> evs[i].repo])
        commits_by_repo(repo) ==
            extend_all([i \in DOMAIN evs |->
                IF evs[i].repo = repo
                THEN get(evs[i].processed_info, "commits", <<>>) ELSE <<>>])
    IN  extend_all([i \in DOMAIN repos |->
            commit_lines(repos[i], commits_by_repo(repos[i]))])

\* The line _format_pr_items appends for an event, whatever its action.
pr_line(e) ==
    LET info == e.processed_info
        action == get(info, "action", "")
        pr_number == get(info, "pr_number", "")
        links == get(info, "links", <<>>)
        link == IF links # <<>> THEN links[1]
                ELSE "https://github.com/" \o e.repo \o "/pull/" \o ToString(pr_number)
        verb == IF action = "opened" THEN "Opened" ELSE StrTitle(action)
    IN  Line("pr", e,
             << Text("- " \o verb \o " "), Bold,
                Link("PR #" \o ToString(pr_number), link), Bold,
                Text(": " \o get(info, "title", "")) >>)

\* _format_pr_items with a line for every action.
format_pr_items_any_action(evs) == [i \in DOMAIN evs |-> pr_line(evs[i])]

\* _format_pr_items
format_pr_items(evs) ==
    extend_all([i \in DOMAIN evs |->
        IF get(evs[i].processed_info, "action", "") \in {"opened", "closed", "merged"}
        THEN << pr_line(evs[i]) >> ELSE <<>>])

\* pr_key = f"{event.repo}#{info.get('pr_number', '')}"
pr_key(e) == e.repo \o "#" \o ToString(get(e.processed_info, "pr_number", ""))

\* The line _format_review_items appends for the review it picked.
review_line(latest_review) ==
    LET info == latest_review.processed_info
        pr_number == get(info, "pr_number", "")
        links == get(info, "links", <<>>)
        link == IF links # <<>> THEN links[1]
                ELSE "https://github.com/" \o latest_review.repo \o "/pull/"
                     \o ToString(pr_number)
    IN  Line("review", pr_key(latest_review),
             << Text("- Reviewed "), Bold,
                Link("PR #" \o ToString(pr_number), link), Bold,
                Text(" (" \o get(info, "review_state", "") \o ")") >>)

\* The events of _format_review_items's reviews_by_pr[key].
reviews_by_pr(evs, key) ==
    SelectSeq(evs, LAMBDA e :
        e.event_type = "PullRequestReviewEvent" /\ pr_key(e) = key)

\* The keys of reviews_by_pr in dict order.
review_keys(evs) ==
    LET reviews == SelectSeq(evs, LAMBDA e : e.event_type = "PullRequestReviewEvent")
    IN  first_seen([i \in DOMAIN reviews |-> pr_key(reviews[i])])

\* _format_review_items taking review_events[0].
format_review_items_first(evs) ==
    LET keys == review_keys(evs)
    IN  [i \in DOMAIN keys |-> review_line(reviews_by_pr(evs, keys[i])[1])]

\* _format_review_items: latest_review = review_events[-1].
format_review_items(evs) ==
    LET keys == review_keys(evs)
    IN  [i \in DOMAIN keys |->
            LET review_events == reviews_by_pr(evs, keys[i])
            IN  review_line(review_events[Len(review_events)])]

\* _format_other_items
format_other_items(evs) ==
    extend_all([i \in DOMAIN evs |->
        LET e == evs[i]
            info == e.processed_info
        IN  IF e.event_type = "IssueCommentEvent"
            THEN LET number == get(info, "issue_number", "")
                     links == get(info, "links", <<>>)
                     link == IF links # <<>> THEN links[1] ELSE ""
                     item_type == IF get(info, "is_pull_request", FALSE)
                                  THEN "PR" ELSE "issue"
                 IN  << Line("comment", e,
                             << Text("- Commented on "), Bold,
                                Link(item_type \o " #" \o ToString(number), link),
                                Bold >>) >>
            ELSE IF e.event_type = "CreateEvent"
                    /\ get(info, "ref_type", "") = "branch"
            THEN << Line("branch", e,
                         << Text("- Created branch "), Bold,
                            Text(get(info, "ref", "")), Bold,
                            Text(" in " \o e.repo) >>) >>
            ELSE <<>>])

\* _generate_standup_items: the groups in the order of the groups dict.
generate_standup_items(activity) ==
    LET significant_events == group_significant_events(activity.events)
    IN  format_commit_items(significant_events.commits)
        \o format_pr_items(significant_events.pull_requests)
        \o format_review_items(significant_events.reviews)
        \o format_other_items(significant_events.other)

\* ---- the three renderings

\* A line of fixed text.
Plain(s) == Line("plain", NoneVal, << Text(s) >>)

\* _format_markdown_report: the lines joined by "\n".
format_markdown_report(activity) ==
    LET standup_items == generate_standup_items(activity)
        repos == sorted(activity.summary.repositories)
    IN  << Plain("# Standup Summary"), Plain("") >>
        \o (IF standup_items # <<>> THEN standup_items
            ELSE << Plain("No significant activity to report.") >>)
        \o << Plain(""), Plain("---"), Plain("") >>
        \o (IF activity.events # <<>>
            THEN << Plain("## GitHub Activity Details"), Plain(""),
                    Line("totals", NoneVal,
                         << Bold, Text(ToString(activity.summary.total_events) \o " events"),
                            Bold, Text(" across "), Bold,
                            Text(ToString(Len(activity.summary.repositories))
                                 \o " repositories"), Bold >>),
                    Plain("") >>
                 \o [i \in DOMAIN repos |->
                        Line("repository", repos[i],
                             << Text("- "),
                                Link(repos[i], "https://github.com/" \o repos[i]) >>)]
                 \o << Plain("") >>
            ELSE <<>>)

\* item.replace("**", "").replace("*", "")
remove_stars(segs) == SelectSeq(segs, LAMBDA g : g.k \notin {"**", "*"})

\* re.sub(r"\[([^\]]+)\]\([^)]+\)", r"\1", item): a link whose label and
\* url are both non-empty becomes its label.
flatten_links(segs) ==
    [i \in DOMAIN segs |->
        IF segs[i].k = "link" /\ segs[i].label # "" /\ segs[i].url # ""
        THEN Text(segs[i].label) ELSE segs[i]]

\* The cleaning of _format_text_report without the re.sub.
clean_item_keep_links(item) == [item EXCEPT !.segs = remove_stars(item.segs)]

\* clean_item of _format_text_report
clean_item(item) == [item EXCEPT !.segs = flatten_links(remove_stars(item.segs))]

\* _format_text_report
format_text_report(activity) ==
    LET standup_items == generate_standup_items(activity)
    IN  << Plain("Standup Summary"), Plain("=================================================="),
           Plain("") >>
        \o (IF standup_items # <<>>
            THEN [i \in DOMAIN standup_items |-> clean_item(standup_items[i])]
            ELSE << Plain("No significant activity to report.") >>)

\* The events list of the JSON report, significant events only.
json_events_significant(activity) ==
    LET groups == group_significant_events(activity.events)
        evs == SelectSeq(activity.events, LAMBDA e :
                   \E g \in DOMAIN groups : \E i \in DOMAIN groups[g] : groups[g][i] = e)
    IN  [i \in DOMAIN evs |->
            [type |-> evs[i].event_type, created_at |-> evs[i].created_at,
             repo |-> evs[i].repo, actor |-> evs[i].actor,
             processed_info |-> evs[i].processed_info]]

\* The events list of the JSON report.
json_events(activity) ==
    [i \in DOMAIN activity.events |->
        [type |-> activity.events[i].event_type,
         created_at |-> activity.events[i].created_at,
         repo |-> activity.events[i].repo,
         actor |-> activity.events[i].actor,
         processed_info |-> activity.events[i].processed_info]]

\* _format_json_report: the data that json.dumps writes and json.loads
\* reads back (strings, numbers, booleans, lists and string-keyed dicts).
format_json_report(activity) ==
    [date |-> activity.target_date,
     github |-> [summary |-> activity.summary, events |-> json_events(activity)],
     standup_items |-> generate_standup_items(activity)]

\* format_standup_report
format_standup_report(github_activity, format_type) ==
    IF format_type = "json" THEN format_json_report(github_activity)
    ELSE IF format_type = "text" THEN format_text_report(github_activity)
    ELSE format_markdown_report(github_activity)

\* The GitHubActivity of the report.
ReportActivity ==
    [target_date |-> TargetDay, events |-> report.events, summary |-> report.summary]

\* A repository delivers a record of the window: the event is built,
\* processed against the service's dedup set and appended to activity.events.
CollectEvent(raw) ==
    /\ report.pc = "collecting"
    /\ Len(report.events) < MaxReportEvents
    /\ raw \notin report.fetched
    /\ LET p == process_event(raw.repo_name, raw, seen_commits)
       IN  /\ report' = [report EXCEPT
                  !.fetched = @ \cup {raw},
                  !.events = Append(@, GitHubEvent(raw.repo_name, raw, p.info))]
           /\ seen_commits' = p.seen
    /\ UNCHANGED not_report

\* The end of get_activity: the events sorted, the summary generated.
Summarize(listing) ==
    /\ report.pc = "collecting"
    /\ listing \in ListsOf({ report.events[i].repo : i \in DOMAIN report.events })
    /\ report' = [report EXCEPT
           !.pc = "returned",
           !.events = sort_events(@),
           !.summary = generate_summary(sort_events(report.events), listing)]
    /\ UNCHANGED <<not_report, seen_commits>>

\* format_standup_report(activity, format_type)
FormatReport(format_type) ==
    /\ report.pc = "returned"
    /\ report' = [report EXCEPT
           !.pc = "formatted",
           !.format = format_type,
           !.output = format_standup_report(ReportActivity, format_type)]
    /\ UNCHANGED <<not_report, seen_commits>>

InitReport ==
    /\ backend = "http"
    /\ github_org = NoneVal
    /\ github_repos = NoneVal
    /\ seen_commits = {}
    /\ current_user = NoneVal
    /\ call = IdleCall
    /\ tool_call = NoToolCall
    /\ command = NoCommand
    /\ other = IdleCall
    /\ report = NoReport
    /\ dates = NoDates
    /\ feed = NoFeed

NextReport ==
    \/ \E raw \in ReportPool : CollectEvent(raw)
    \/ \E listing \in ListsOf({"r1"}) \cup ListsOf({"r2"}) \cup ListsOf({"r1", "r2"})
                      \cup ListsOf({}) : Summarize(listing)
    \/ \E format_type \in {"markdown", "text", "json"} : FormatReport(format_type)

SpecReport == InitReport /\ [][NextReport]_vars

\* ------------------------------------------------------------- DateParser

\* A day is the number of days since 2023-12-01, a Friday; today ranges over
\* FirstToday..LastToday, which spans the end of a month, of a year and
\* the 29th of February 2024.
FirstToday == 7
LastToday == 97

\* datetime.weekday(): Monday is 0, Sunday is 6.
weekday(day) == (day + 4) % 7

\* The weekday names of weekday_map, and the spellings of the model.
FullNames == << "monday", "tuesday", "wednesday", "thursday", "friday",
                "saturday", "sunday" >>
ShortNames == << "mon", "tue", "wed", "thu", "fri", "sat", "sun" >>
TitleNames == << "Monday", "Tuesday", "Wednesday", "Thursday", "Friday",
                 "Saturday", "Sunday" >>
UpperShortNames == << "MON", "TUE", "WED", "THU", "FRI", "SAT", "SUN" >>

\* The spellings of the i-th weekday in the model, with what
\* .lower().strip() makes of them.
SpellingsOf(i) ==
    { [raw |-> FullNames[i], norm |-> FullNames[i]],
      [raw |-> ShortNames[i], norm |-> ShortNames[i]],
      [raw |-> TitleNames[i], norm |-> FullNames[i]],
      [raw |-> UpperShortNames[i], norm |-> ShortNames[i]],
      [raw |-> " " \o TitleNames[i] \o " ", norm |-> FullNames[i]],
      [raw |-> "last " \o FullNames[i], norm |-> "last " \o FullNames[i]],
      [raw |-> "last " \o ShortNames[i], norm |-> "last " \o ShortNames[i]],
      [raw |-> "Last " \o TitleNames[i], norm |-> "last " \o FullNames[i]],
      [raw |-> "LAST " \o UpperShortNames[i], norm |-> "last " \o ShortNames[i]] }

WeekdaySpellings == UNION { SpellingsOf(i) : i \in 1..7 }

\* The other expressions of the model with their .lower().strip().
OtherSpellings ==
    { [raw |-> "yesterday", norm |-> "yesterday"],
      [raw |-> "Yesterday ", norm |-> "yesterday"],
      [raw |-> "today", norm |-> "today"],
      [raw |-> "TODAY", norm |-> "today"],
      [raw |-> " ", norm |-> ""],
      [raw |-> "2024-01-15", norm |-> "2024-01-15"],
      [raw |-> "last week", norm |-> "last week"],
      [raw |-> "Last Fryday", norm |-> "last fryday"],
      [raw |-> "garbage", norm |-> "garbage"],
      [raw |-> "99999999999999999999", norm |-> "99999999999999999999"] }

Spellings == WeekdaySpellings \cup OtherSpellings

\* The expressions a caller passes: the spellings, "" and None.
Expressions == { f.raw : f \in Spellings } \cup {"", NoneVal}

\* date_expression.lower().strip()
lower_strip(s) == (CHOOSE f \in Spellings : f.raw = s).norm

\* weekday_map: name in weekday_map, and weekday_map[name].
in_weekday_map(name) ==
    \E i \in 1..7 : name = FullNames[i] \/ name = ShortNames[i]
weekday_map(name) ==
    (CHOOSE i \in 1..7 : name = FullNames[i] \/ name = ShortNames[i]) - 1

\* The strings that follow "last " in the expressions of the model.
LastTails == {"week", "fryday"} \cup { FullNames[i] : i \in 1..7 }
                 \cup { ShortNames[i] : i \in 1..7 }

\* date_expression.startswith("last ") and date_expression[5:]
startswith_last(s) == \E t \in LastTails : s = "last " \o t
after_last(s) == CHOOSE t \in LastTails : s = "last " \o t

\* _get_last_workday
get_last_workday(today) ==
    LET dow == weekday(today)
        days_back == IF dow = 0 THEN 3 ELSE 1
    IN  today - days_back

\* _get_last_weekday without the jump of a full week.
get_last_weekday_no_jump(today, target_weekday) ==
    LET current_weekday == weekday(today)
        days_back == IF current_weekday >= target_weekday
                     THEN current_weekday - target_weekday
                     ELSE 7 - (target_weekday - current_weekday)
    IN  today - days_back

\* _get_last_weekday
get_last_weekday(today, target_weekday) ==
    LET current_weekday == weekday(today)
        days_back0 == IF current_weekday >= target_weekday
                      THEN current_weekday - target_weekday
                      ELSE 7 - (target_weekday - current_weekday)
        days_back == IF days_back0 = 0 THEN 7 ELSE days_back0
    IN  today - days_back

\* What dateutil's parser.parse may do with a lower-cased, stripped
\* expression that is none of the recognized forms: return the date of an
\* ISO date, or reject the string with one of the exceptions its
\* documentation lists (ParserError is a ValueError).
ParseOutcomes(norm) ==
    IF norm = "2024-01-15" THEN { [ok |-> TRUE, day |-> 45, raised |-> "none"] }
    ELSE { [ok |-> FALSE, day |-> 0, raised |-> x] :
             x \in {"ValueError", "TypeError", "OverflowError"} }

\* The exceptions parse_date catches around date_parser.parse.
parse_date_except == {"ValueError", "TypeError"}

\* parse_date: the day returned, or the exception that leaves it.  outcome
\* is what date_parser.parse does if it is reached; path names the return
\* statement taken.
parse_date(today, date_expression, outcome) ==
    IF ~Truthy(date_expression)
    THEN [result |-> get_last_workday(today), raised |-> NoException, path |-> "empty"]
    ELSE LET e == lower_strip(date_expression)
         IN  IF e = "yesterday"
             THEN [result |-> today - 1, raised |-> NoException, path |-> "yesterday"]
             ELSE IF e = "today"
             THEN [result |-> today, raised |-> NoException, path |-> "today"]
             ELSE IF startswith_last(e) /\ in_weekday_map(after_last(e))
             THEN [result |-> get_last_weekday(today, weekday_map(after_last(e))),
                   raised |-> NoException, path |-> "weekday"]
             ELSE IF in_weekday_map(e)
             THEN [result |-> get_last_weekday(today, weekday_map(e)),
                   raised |-> NoException, path |-> "weekday"]
             ELSE IF outcome.ok
             THEN [result |-> outcome.day, raised |-> NoException, path |-> "parsed"]
             ELSE IF outcome.raised \in parse_date_except
             THEN [result |-> get_last_workday(today), raised |-> NoException,
                   path |-> "rejected"]
             ELSE [result |-> 0, raised |-> [type |-> outcome.raised, arg |-> ""],
                   path |-> "rejected"]

\* ---- the calendar

\* calendar.monthrange: the number of days of a month.
is_leap(year) == year % 4 = 0 /\ (year % 100 # 0 \/ year % 400 = 0)
days_in_month(year, month) ==
    IF month = 2 THEN (IF is_leap(year) THEN 29 ELSE 28)
    ELSE IF month \in {4, 6, 9, 11} THEN 30 ELSE 31

\* The datetime of a day number: date(2023, 12, 1) + timedelta(days=day).
RECURSIVE date_from(_, _, _)
date_from(year, month, rest) ==
    IF rest < days_in_month(year, month)
    THEN [year |-> year, month |-> month, day |-> rest + 1]
    ELSE IF month = 12
    THEN date_from(year + 1, 1, rest - days_in_month(year, month))
    ELSE date_from(year, month + 1, rest - days_in_month(year, month))

datetime_of(day) == date_from(2023, 12, day)

\* strftime("%Y-%m-%dT..."): a time stamp as its fields from the left, which
\* compare as the zero-padded strings do.
strftime(date, hour, minute, second) ==
    << date.year, date.month, date.day, hour, minute, second >>

\* get_utc_date_range with the end stamp on the target day itself.
utc_date_range_same_day(target_date) ==
    [start |-> strftime(datetime_of(target_date), 0, 0, 0),
     end |-> strftime(datetime_of(target_date), 7, 59, 59)]

\* get_utc_date_range on datetimes: next_day = target_date + timedelta(days=1).
utc_date_range(target_date) ==
    LET next_day == target_date + 1
    IN  [start |-> strftime(datetime_of(target_date), 0, 0, 0),
         end |-> strftime(datetime_of(next_day), 7, 59, 59)]

\* A caller asks for a date: parse_date(date_expression) at a moment of day
\* today.
ParseDate(today, date_expression, outcome) ==
    /\ dates.pc = "idle"
    /\ outcome \in ParseOutcomes(IF Truthy(date_expression)
                                 THEN lower_strip(date_expression) ELSE "")
    /\ LET r == parse_date(today, date_expression, outcome)
       IN  dates' = [dates EXCEPT
               !.pc = IF r.raised = NoException THEN "parsed" ELSE "raised",
               !.today = today,
               !.expression = date_expression,
               !.result = r.result,
               !.raised = r.raised,
               !.path = r.path]
    /\ UNCHANGED not_dates

\* get_utc_date_range(target_date) on the date parse_date returned.
GetUtcDateRange ==
    /\ dates.pc = "parsed"
    /\ dates' = [dates EXCEPT !.pc = "ranged", !.window = utc_date_range(dates.result)]
    /\ UNCHANGED not_dates

InitDates ==
    /\ backend = "http"
    /\ github_org = NoneVal
    /\ github_repos = NoneVal
    /\ seen_commits = {}
    /\ current_user = NoneVal
    /\ call = IdleCall
    /\ tool_call = NoToolCall
    /\ command = NoCommand
    /\ other = IdleCall
    /\ report = NoReport
    /\ dates = NoDates
    /\ feed = NoFeed

NextDates ==
    \/ /\ dates.pc = "idle"
       /\ \E today \in FirstToday..LastToday : \E date_expression \in Expressions :
              \E outcome \in ParseOutcomes("2024-01-15") \cup ParseOutcomes("") :
                  ParseDate(today, date_expression, outcome)
    \/ GetUtcDateRange

SpecDates == InitDates /\ [][NextDates]_vars

\* ------------------------------------------------------------ the claims

\* The events the call has processed so far, in the order it processed them.
Processed == call.activity \o call.events

\* The dedup key of a commit message as the data model defines it: the
\* message stripped, lower-cased, its spaces replaced by underscores.
KeyOf(message) == StrSpaceToUnderscore(StrLower(StrStrip(message)))

\* The keys an event carries: those of its payload's commits that have a
\* message and a hash.
Carried(e) ==
    IF e.event_type # "PushEvent" THEN {}
    ELSE { KeyOf(e.payload.commits[k].message) :
             k \in { k \in DOMAIN e.payload.commits :
                       /\ StrStrip(e.payload.commits[k].message) # ""
                       /\ e.payload.commits[k].sha # "" } }

\* The keys of the commits an event emitted into processed_info.commits.
Emitted(e) ==
    { KeyOf(e.processed_info.commits[k].message) : k \in DOMAIN e.processed_info.commits }

RECURSIVE SumLen(_)
SumLen(evs) ==
    IF evs = <<>> THEN 0 ELSE Len(Head(evs).processed_info.commits) + SumLen(Tail(evs))

DedupState ==
    call.pc # "idle" =>
        LET evs == Processed
        IN  /\ \A i \in DOMAIN evs :
                 LET cs == evs[i].processed_info.commits
                 IN  /\ \A j, k \in DOMAIN cs :
                            j # k => KeyOf(cs[j].message) # KeyOf(cs[k].message)
                     /\ Emitted(evs[i]) =
                            Carried(evs[i]) \ UNION { Carried(evs[h]) : h \in 1..(i - 1) }
            /\ \A i, j \in DOMAIN evs : i < j => Emitted(evs[i]) \cap Emitted(evs[j]) = {}
            /\ seen_commits = UNION { Emitted(evs[i]) : i \in DOMAIN evs }
            /\ Cardinality(seen_commits) = SumLen(evs)

\* C1: within one get_activity call, each dedup key is emitted into
\* processed_info.commits exactly once, by the first processed event that
\* carries it; a later commit with the same key adds no entry, whatever its
\* hash or repository; and after every step the dedup set is exactly the
\* set of the keys emitted so far, as large as the number of commits
\* emitted, and it never shrinks during the call.
C1_DedupOnce ==
    [][DedupState' /\ (call.pc # "idle" => seen_commits \subseteq seen_commits')]_vars

\* C1 witness: a later event of another repository carried a key an earlier
\* event had emitted, under another hash, and emitted nothing for it.
C1_Witness ==
    /\ call.pc = "returned"
    /\ \E i, j \in DOMAIN call.activity :
          /\ i < j
          /\ call.activity[i].repo # call.activity[j].repo
          /\ Carried(call.activity[j]) \cap Emitted(call.activity[i]) # {}
          /\ call.activity[j].processed_info.commits = <<>>
          /\ \A a \in DOMAIN call.activity[i].payload.commits,
                b \in DOMAIN call.activity[j].payload.commits :
                call.activity[i].payload.commits[a].sha
                    # call.activity[j].payload.commits[b].sha

\* Whether every event of evs lies in the window, both bounds included.
InWindow(evs) ==
    \A i \in DOMAIN evs :
        /\ get_utc_date_range(TargetDay).start <= evs[i].created_at
        /\ evs[i].created_at <= get_utc_date_range(TargetDay).end

\* Whether every event of evs has the call's username as its actor, the
\* case ignored.
ActorMatches(evs) ==
    \A i \in DOMAIN evs : StrLower(evs[i].actor) = StrLower(call.username)

\* C2 as claimed: every event of a returned collection lies in the window
\* and, a username filter active, has that username as its actor, in the
\* per-repository feeds and in the user-feed fallback alike.
C2_Original ==
    call.pc = "returned" =>
        /\ InWindow(call.result)
        /\ Truthy(call.username) => ActorMatches(call.result)

\* C2 as amended: every event a call collects and returns lies in the
\* window, both bounds included; a username filter active, every event
\* taken from a per-repository feed has that username as its actor, the
\* case ignored.  The user-feed fallback filters by the window only.
C2_Filtered ==
    /\ InWindow(Processed)
    /\ InWindow(call.result)
    /\ (Truthy(call.username) /\ call.source # "user_feed") =>
           (ActorMatches(Processed) /\ ActorMatches(call.result))

\* C2 witness: a username filter active, a per-repository call returned
\* events on both bounds of the window, one of an actor whose login differs
\* from the username in case.
C2_Witness ==
    /\ call.pc = "returned"
    /\ Truthy(call.username)
    /\ call.source # "user_feed"
    /\ \E i, j, k \in DOMAIN call.result :
          /\ call.result[i].created_at = get_utc_date_range(TargetDay).start
          /\ call.result[j].created_at = get_utc_date_range(TargetDay).end
          /\ call.result[k].actor # call.username

\* C3: the events of every returned collection are in non-decreasing
\* created_at order, the collection returned through the user-feed fallback
\* included.
C3_Sorted ==
    call.pc = "returned" =>
        /\ Len(call.result) = Len(call.activity)
        /\ \A i, j \in DOMAIN call.result :
               i < j => call.result[i].created_at <= call.result[j].created_at

\* C3 witness: the user-feed fallback returned events it had collected in
\* another order.
C3_Witness ==
    /\ call.pc = "returned"
    /\ call.source = "user_feed"
    /\ call.result # call.activity

\* C4: a feed's pages are requested in the order 1, 2, 3, ..., each after
\* the response to the one before was examined: a feed is entered at page
\* 1, the page asked for next is the one after the page just examined, and
\* it is asked for only when that response was a well-formed body of 100
\* records whose last record is not older than the start; no page beyond
\* the 50th is ever asked for.
C4_Paging ==
    [][ LET events_pcs == {"repo_events", "user_events"}
            same_feed == /\ call.pc \in events_pcs
                         /\ call'.pc = call.pc
                         /\ call'.idx = call.idx
                         /\ call' # call
        IN  /\ call'.pc \in events_pcs => (1 <= call'.page /\ call'.page <= 50)
            /\ same_feed =>
                  /\ call'.page = call.page + 1
                  /\ call'.last.ok
                  /\ call'.last.len = 100
                  /\ ~call'.last.old
            /\ (call'.pc \in events_pcs /\ ~same_feed /\ call' # call) =>
                  (call'.page = 1 /\ call'.last.none)
      ]_vars

\* C4 witness: 49 full pages of one repository examined, the 50th is the
\* next to be asked for.
C4_Witness ==
    /\ call.pc = "repo_events"
    /\ call.page = 50
    /\ call.last.ok
    /\ call.last.len = 100

\* C5 as claimed: no failing external call of get_activity, be it a
\* repository listing or an event request, aborts the request.
C5_NeverAborts == call.ext_fail => call.pc # "raised"

\* The events of repository repo among evs.
OfRepo(evs, repo) == SelectSeq(evs, LAMBDA e : e.repo = repo)

\* The elements of a sequence.
Range(xs) == { xs[i] : i \in DOMAIN xs }

\* C6 as claimed: a repository one of whose event requests failed has no
\* event in the returned collection.
C6_Original ==
    call.pc = "returned" =>
        \A f \in call.failed : OfRepo(call.result, f.repo) = <<>>

\* C6 as amended: when a request for a page of a repository's events fails
\* with a failure the code catches, the repository contributes exactly the
\* events accepted from its earlier pages (none when the first page fails),
\* and when the collection is returned every repository of the list has
\* been queried.
C6_KeepsEarlierPages ==
    /\ \A f \in call.failed : OfRepo(call.activity, f.repo) = f.events
    /\ (call.pc = "returned" /\ call.source # "user_feed") =>
           /\ call.queried = Range(call.repos_to_process)
           /\ \A f \in call.failed :
                  Len(OfRepo(call.result, f.repo)) = Len(f.events)

\* C6 witness: a collection returned with the events of the first page of a
\* repository whose later page failed, and with another repository's events.
C6_Witness ==
    /\ call.pc = "returned"
    /\ \E f \in call.failed :
          /\ f.events # <<>>
          /\ \E i \in DOMAIN call.result : call.result[i].repo # f.repo

\* The source the claimed order gives where no repository is passed and a
\* repository list is configured: the list, the organization not consulted.
\* C7 as claimed: both adapters put the configured repository list ahead of
\* the configured organization.
C7_Original ==
    (call.pc # "idle" /\ call.repos = <<>> /\ Truthy(github_repos)) =>
        /\ call.pc # "org_repos"
        /\ "org" \notin call.listing
        /\ call.source \in {"none", "env_repos"}

\* The source each adapter is to take for the arguments and configuration
\* of the call: "user" stands for the user's repositories and, these being
\* none, the user feed.
ExpectedSource ==
    IF call.repos # <<>> THEN "explicit"
    ELSE IF backend = "http"
    THEN IF Truthy(github_org) THEN "org"
         ELSE IF Truthy(github_repos) THEN "env_repos" ELSE "none"
    ELSE IF Truthy(github_repos) THEN "env_repos"
         ELSE IF Truthy(github_org) THEN "org" ELSE "user"

\* C7 as amended: get_activity takes its repositories from one source.  The
\* HTTP-backed adapter takes the first available of: repos argument,
\* organization listing, configured repository list.  The CLI-backed adapter
\* takes the first available of: repos argument, configured repository
\* list, organization listing, the user's repositories, and the user feed
\* when the user has no repository.  No listing of another source is made
\* and no feed outside the chosen source is requested.
C7_Precedence ==
    /\ call.source # "none" =>
          IF ExpectedSource = "user"
          THEN call.source \in {"user_repos", "user_feed"}
          ELSE call.source = ExpectedSource
    /\ call.listing \ {"current_user"} \subseteq
          (CASE ExpectedSource = "org" -> {"org"}
             [] ExpectedSource = "user" -> {"user_repos"}
             [] OTHER -> {})
    /\ call.pc = "org_repos" => ExpectedSource = "org"
    /\ call.pc \in {"user_repos", "user_events"} => ExpectedSource = "user"
    /\ call.source = "user_feed" =>
          ("user_repos" \in call.listing /\ call.queried \subseteq {"user_feed"})
    /\ call.source # "user_feed" =>
          call.queried \subseteq Range(call.repos_to_process)

\* C7 witness: the HTTP-backed adapter, organization and repository list
\* both configured, returns what the organization's repositories gave.
C7_Witness ==
    /\ backend = "http"
    /\ Truthy(github_org) /\ Truthy(github_repos)
    /\ call.pc = "returned"
    /\ call.source = "org"
    /\ call.queried # {}

\* No repository passed, neither organization nor repository list configured.
NothingConfigured ==
    call.repos = <<>> /\ ~Truthy(github_repos) /\ ~Truthy(github_org)

C9_Original ==
    (~Truthy(call.arg_username) /\ call.pc \notin {"idle", "current_user", "raised"}) =>
        (Truthy(call.username) /\ call.username = current_user)

\* C9 as amended: the CLI-backed get_activity called without a username
\* takes the authenticated identity (asked of the external source, or
\* remembered from an earlier call) as the actor filter of the repository
\* feeds, and when there is none it raises an error before any listing or
\* event request: the explicit ValueError, or FileNotFoundError when the
\* executable is missing.  The HTTP-backed get_activity resolves nothing:
\* called without a username it asks for no identity, raises no such error
\* and filters by no actor.
C9_Resolution ==
    /\ (backend = "cli" /\ call.pc \notin {"idle", "current_user"}
          /\ ~Truthy(call.arg_username)) =>
          \/ /\ Truthy(current_user)
             /\ call.username = current_user
             /\ call.error \notin {UserError}
             /\ call.source # "user_feed" =>
                   \A i \in DOMAIN call.activity :
                       StrLower(call.activity[i].actor) = StrLower(current_user)
          \/ /\ call.pc = "raised"
             /\ call.error \in {UserError, "FileNotFoundError"}
             /\ call.listing = {"current_user"}
             /\ call.queried = {}
             /\ call.source = "none"
    /\ (backend = "cli" /\ call.pc \notin {"idle", "current_user"}
          /\ Truthy(call.arg_username)) =>
          (call.username = call.arg_username /\ "current_user" \notin call.listing)
    /\ backend = "http" =>
          /\ call.username = call.arg_username
          /\ "current_user" \notin call.listing
          /\ call.error # UserError
          /\ current_user = NoneVal

\* C9 witness: a CLI-backed call without a username returns events of the
\* identity it resolved.
C9_Witness ==
    /\ backend = "cli"
    /\ ~Truthy(call.arg_username)
    /\ "current_user" \in call.listing
    /\ call.pc = "returned"
    /\ call.source # "user_feed"
    /\ call.result # <<>>

\* Whether the name of the tool call is one its server does not know.
UnknownTool ==
    tool_call.name \notin
        (IF tool_call.service = "mise" THEN TOOL_HANDLERS ELSE StandupTools)

\* The tool call is over and was one with an unknown name or one whose
\* handler raised.
FailedToolCall ==
    /\ tool_call.pc \notin {"idle", "handler"}
    /\ (UnknownTool \/ tool_call.raised # NoException)

\* C10 as claimed: in both services the tool call with an unknown name or a
\* raising handler ends in one text block, nothing propagated, and the
\* exception of the handler is rendered "Error: <message>".
C10_Original ==
    FailedToolCall =>
        /\ tool_call.pc = "responded"
        /\ Len(tool_call.content) = 1
        /\ tool_call.raised # NoException =>
              tool_call.content[1] = "Error: " \o str(tool_call.raised)

\* C10 as amended: in both services the tool call with an unknown name or a
\* raising handler ends in exactly one text block and propagates no
\* exception.  The standup server renders the handler's exception as
\* "Error: <message>" and the unknown name as "Error: Unknown tool: <name>";
\* the mise server renders the handler's exception as
\* "Error executing <name>: <message>" and the unknown name as
\* "Unknown tool: <name>".
C10_OneTextBlock ==
    FailedToolCall =>
        /\ tool_call.pc = "responded"
        /\ tool_call.propagated = NoException
        /\ Len(tool_call.content) = 1
        /\ tool_call.content[1] =
              IF tool_call.service = "standup"
              THEN IF UnknownTool
                   THEN "Error: Unknown tool: " \o tool_call.name
                   ELSE "Error: " \o str(tool_call.raised)
              ELSE IF UnknownTool
                   THEN "Unknown tool: " \o tool_call.name
                   ELSE "Error executing " \o tool_call.name \o ": "
                            \o str(tool_call.raised)

\* C10 witness: the mise server has answered a tool call whose handler
\* raised after its first external call.
C10_Witness ==
    /\ tool_call.service = "mise"
    /\ tool_call.pc = "responded"
    /\ tool_call.raised = [type |-> "Exception", arg |-> "Unexpected error"]
    /\ Len(tool_call.content) = 1

\* C11: run_mise_command never raises; a subprocess call that raised (a
\* timeout, a missing executable, any other exception) gives a result with
\* success false, stdout empty and returncode -1; and in every result
\* success is true exactly when returncode is 0.
C11_NeverRaises ==
    /\ command.pc # "raised"
    /\ command.propagated = NoException
    /\ command.pc = "returned" =>
          /\ command.result.success = (command.result.returncode = 0)
          /\ command.raised # NoException =>
                /\ ~command.result.success
                /\ command.result.stdout = ""
                /\ command.result.returncode = 0 - 1

\* C11 witness: the executable was missing at the second subprocess, after
\* the first had exited, and a failed result is returned.
C11_Witness ==
    /\ command.pc = "returned"
    /\ command.raised.type = "FileNotFoundError"
    /\ command.env # {}
    /\ ~command.result.success

\* C12: get_activity empties the dedup set before it processes any event:
\* the step that begins a call leaves the set empty whatever an earlier
\* call left in it, the set is empty as long as the call has processed no
\* event, and the first event a call processes emits every key it carries,
\* those an earlier call emitted included.
C12_ResetPerFetch ==
    [][ /\ (call.pc = "idle" /\ call'.pc # "idle") => seen_commits' = {}
        /\ (call'.pc # "idle" /\ Processed' = <<>>) => seen_commits' = {}
        /\ (call'.pc # "idle" /\ Processed = <<>> /\ Processed' # <<>>) =>
              Emitted(Processed'[1]) = Carried(Processed'[1])
      ]_vars

\* C12 witness: a call that began with the key "fix_bug" of an earlier call
\* in the dedup set has emitted a commit with that key.
C12_Witness ==
    /\ call.refetch
    /\ call.pc = "returned"
    /\ \E i \in DOMAIN call.result : "fix_bug" \in Emitted(call.result[i])

\* The events the running call processed in the step.
NewlyProcessed == SubSeq(Processed', Len(Processed) + 1, Len(Processed'))

\* C13: the dedup set is the service's, not the call's.  With two calls
\* interleaved on one HTTP-backed service, the step that begins a call
\* empties the set, the keys the waiting call recorded included; and the
\* events a call processes in a step emit exactly the keys they carry that
\* are not in the set, whichever call recorded them, and add them to it.
C13_SharedSet ==
    [][ other' = other =>
          /\ (call.pc = "idle" /\ call'.pc # "idle") => seen_commits' = {}
          /\ (call.pc # "idle" /\ call'.pc # "idle") =>
                LET new == NewlyProcessed
                IN  /\ seen_commits' =
                          seen_commits \cup UNION { Emitted(new[i]) : i \in DOMAIN new }
                    /\ \A i \in DOMAIN new :
                          Emitted(new[i]) =
                              Carried(new[i]) \
                                  (seen_commits \cup
                                       UNION { Carried(new[h]) : h \in 1..(i - 1) })
      ]_vars

\* C13 witness: a call returns a collection in which an event carries a key
\* that no event of the collection emitted, the waiting call having emitted
\* it; run alone the call emits every key its events carry.
C13_Witness ==
    /\ call.pc = "returned"
    /\ other.pc # "idle"
    /\ \E i \in DOMAIN call.result :
          \E k \in Carried(call.result[i]) :
              /\ \A j \in DOMAIN call.result : k \notin Emitted(call.result[j])
              /\ \E h \in DOMAIN (other.activity \o other.events) :
                    k \in Emitted((other.activity \o other.events)[h])

\* ---- the summary and the report

\* The collection has been returned by get_activity.
Summarized == report.pc \in {"returned", "formatted"}

RECURSIVE SumCounts(_)
SumCounts(f) ==
    IF DOMAIN f = {} THEN 0
    ELSE LET t == CHOOSE u \in DOMAIN f : TRUE
         IN  f[t] + SumCounts([u \in DOMAIN f \ {t} |-> f[u]])

ReposOf(evs) == { evs[i].repo : i \in DOMAIN evs }

\* The commits entries of the Push events, one pair per entry.
PushCommitEntries(evs) ==
    UNION { { <<i, j>> : j \in DOMAIN evs[i].processed_info.commits } :
              i \in { k \in DOMAIN evs : evs[k].event_type = "PushEvent" } }

\* What the summary of a returned collection states, but for the order of
\* its repositories.
SummaryCounts ==
    LET evs == report.events
        summary == report.summary
    IN  /\ summary.total_events = Len(evs)
        /\ summary.total_events = SumCounts(summary.event_types)
        /\ \A t \in DOMAIN summary.event_types :
               summary.event_types[t]
                   = Cardinality({ i \in DOMAIN evs : evs[i].event_type = t })
        /\ { summary.repositories[i] : i \in DOMAIN summary.repositories } = ReposOf(evs)
        /\ Len(summary.repositories) = Cardinality(ReposOf(evs))
        /\ summary.commit_count = Cardinality(PushCommitEntries(evs))
        /\ summary.pr_count
               = Cardinality({ i \in DOMAIN evs : evs[i].event_type = "PullRequestEvent" })

\* C14 as stated: the summary of a returned collection has the right counts
\* and repositories, and every computation of the summary of the same list
\* gives the same summary.
C14_Original ==
    Summarized =>
        /\ SummaryCounts
        /\ \A listing \in ListsOf(ReposOf(report.events)) :
               generate_summary(report.events, listing) = report.summary

\* C14 (amended): the summary of a returned collection has total_events equal
\* to the number of events and to the sum of the per-type counts, repositories
\* holding each distinct repo of the events exactly once, commit_count equal
\* to the number of commits entries of the Push events and pr_count equal to
\* the number of Pull-request events; every computation of the summary of the
\* same list gives the same summary but for the order of repositories.
C14_Summary ==
    Summarized =>
        /\ SummaryCounts
        /\ \A listing \in ListsOf(ReposOf(report.events)) :
               [generate_summary(report.events, listing)
                    EXCEPT !.repositories = report.summary.repositories]
                   = report.summary

\* A returned collection of two repositories with a Push event of several
\* commits, a Push event that kept none and a Pull-request event.
C14_Witness ==
    /\ Summarized
    /\ Len(report.summary.repositories) = 2
    /\ report.summary.commit_count >= 2
    /\ report.summary.pr_count = 1
    /\ report.summary.total_events = 3
    /\ \E i \in DOMAIN report.events :
           /\ report.events[i].event_type = "PushEvent"
           /\ Len(report.events[i].processed_info.commits) >= 2

\* C15: every event of a collection, whatever its type, has a processed_info
\* with the keys links, details and commits, each of them a sequence.
C15_ThreeKeys ==
    \A i \in DOMAIN report.events :
        LET info == report.events[i].processed_info
        IN  /\ {"links", "details", "commits"} \subseteq DOMAIN info
            /\ \A k \in {"links", "details", "commits"} :
                   DOMAIN info[k] = 1..Len(info[k])

\* A returned collection with a ref-create event, a ref-delete event and an
\* event of an unrecognized type.
C15_Witness ==
    /\ Summarized
    /\ { report.events[i].event_type : i \in DOMAIN report.events }
           = {"CreateEvent", "DeleteEvent", "WatchEvent"}
    /\ \A i \in DOMAIN report.events :
           /\ report.events[i].processed_info.links = <<>>
           /\ report.events[i].processed_info.commits = <<>>

\* The JSON report of the returned collection has been written.
JsonFormatted == report.pc = "formatted" /\ report.format = "json"

\* An event for which the formatter writes a standup line.
YieldsItem(e) ==
    \/ e.event_type = "PushEvent" /\ e.processed_info.commits # <<>>
    \/ /\ e.event_type = "PullRequestEvent"
       /\ e.processed_info.action \in {"opened", "closed", "merged"}
    \/ e.event_type = "PullRequestReviewEvent"
    \/ e.event_type = "IssueCommentEvent"
    \/ e.event_type = "CreateEvent" /\ e.processed_info.ref_type = "branch"

\* The JSON report carries the total and the events of the collection.
JsonCarriesEvents ==
    LET data == report.output
        evs == report.events
    IN  /\ data.github.summary.total_events = report.summary.total_events
        /\ data.github.summary.total_events = Len(evs)
        /\ Len(data.github.events) = Len(evs)
        /\ \A i \in DOMAIN evs :
               /\ data.github.events[i].type = evs[i].event_type
               /\ data.github.events[i].created_at = evs[i].created_at
               /\ data.github.events[i].repo = evs[i].repo
               /\ data.github.events[i].actor = evs[i].actor
               /\ data.github.events[i].processed_info = evs[i].processed_info

\* C16 as stated: the JSON report carries the total and one entry per event
\* in order, and its standup_items is non-empty whenever there are events.
C16_Original ==
    JsonFormatted =>
        /\ JsonCarriesEvents
        /\ report.events # <<>> => report.output.standup_items # <<>>

\* C16 (amended): the JSON report carries summary.total_events and one entry
\* per event of the collection in the same order; its standup_items is
\* non-empty exactly when some event is a Push event that kept a commit, a
\* Pull-request event opened, closed or merged, a pull-request review, an
\* issue comment or the creation of a branch.
C16_JsonReport ==
    JsonFormatted =>
        /\ JsonCarriesEvents
        /\ report.output.standup_items # <<>>
               <=> \E i \in DOMAIN report.events : YieldsItem(report.events[i])

\* A JSON report of three events, one of them without a standup line, whose
\* standup_items is not empty.
C16_Witness ==
    /\ JsonFormatted
    /\ Len(report.output.github.events) = 3
    /\ report.output.standup_items # <<>>
    /\ \E i \in DOMAIN report.events : ~YieldsItem(report.events[i])

\* A line contains the substring "](http": it has a link segment with a
\* URL, every URL of the model being an https://github.com/ one.
HasLink(line) ==
    \E i \in DOMAIN line.segs : line.segs[i].k = "link" /\ line.segs[i].url # ""

Formatted(format_type) == report.pc = "formatted" /\ report.format = format_type

\* No line of the text report has a link.
TextHasNoLink ==
    Formatted("text") => \A i \in DOMAIN report.output : ~HasLink(report.output[i])

StandupItems == report.output.standup_items

\* The commits entries of the Push events of repository repo.
RepoCommitEntries(repo) ==
    { e \in PushCommitEntries(report.events) : report.events[e[1]].repo = repo }

\* The positions of the commit lines written for repository repo.
CommitLinesAt(repo) ==
    { i \in DOMAIN StandupItems :
        /\ StandupItems[i].kind \in {"committed", "made", "commit", "more"}
        /\ StandupItems[i].of = repo }

\* The kinds of lines a repository with n commits is to have, in order.
ExpectedKinds(n) ==
    IF n = 0 THEN <<>>
    ELSE IF n = 1 THEN << "committed" >>
    ELSE << "made" >> \o [i \in 1..(IF n < 3 THEN n ELSE 3) |-> "commit"]
         \o (IF n > 3 THEN << "more" >> ELSE <<>>)

\* C18: the commit lines of a repository are consecutive and determined by
\* the number n of commits of all its Push events together: one Committed
\* line for n = 1; for n >= 2 a line stating n, then min(n, 3) commit
\* sub-lines, then an "(and n-3 more)" line exactly when n > 3.
C18_CommitLines ==
    JsonFormatted =>
        \A repo \in {"r1", "r2"} :
            LET n == Cardinality(RepoCommitEntries(repo))
                at == CommitLinesAt(repo)
                kinds == ExpectedKinds(n)
            IN  /\ Cardinality(at) = Len(kinds)
                /\ \A i, j \in at : \A m \in i..j : m \in at
                /\ \A i \in at :
                       LET k == 1 + Cardinality({ j \in at : j < i })
                           line == StandupItems[i]
                       IN  /\ line.kind = kinds[k]
                           /\ line.kind = "committed" => line.segs[1] = Text("- Committed ")
                           /\ line.kind = "made" =>
                                  line.segs[3] = Text(ToString(n) \o " commits")
                           /\ line.kind = "more" =>
                                  line.segs[3] = Text("(and " \o ToString(n - 3) \o " more)")

\* A report of a repository whose four commits come from two Push events:
\* a summary line, three sub-lines and the "(and 1 more)" line.
C18_Witness ==
    /\ JsonFormatted
    /\ Cardinality(RepoCommitEntries("r1")) = 4
    /\ Cardinality({ e[1] : e \in RepoCommitEntries("r1") }) = 2
    /\ Cardinality(CommitLinesAt("r1")) = 5

\* The positions of the pull-request review events of repository repo and
\* pull request number.
ReviewGroup(repo, number) ==
    { i \in DOMAIN report.events :
        /\ report.events[i].event_type = "PullRequestReviewEvent"
        /\ report.events[i].repo = repo
        /\ report.events[i].processed_info.pr_number = number }

\* The positions of the events of a group with the latest created_at.
LatestOf(group) ==
    { i \in group : \A j \in group :
        report.events[j].created_at <= report.events[i].created_at }

ReviewLinesAt == { i \in DOMAIN StandupItems : StandupItems[i].kind = "review" }

\* The (repository, pull request) pairs of the model.
ReviewPairs == {"r1", "r2"} \X {1, 2, 4}

\* C19: the review events of one repository and pull request yield exactly
\* one line, which states the review state of an event of the group with the
\* latest created_at; there is no other review line.
C19_LatestReview ==
    JsonFormatted =>
        /\ \A p \in ReviewPairs :
               LET group == ReviewGroup(p[1], p[2])
                   lines == { i \in ReviewLinesAt :
                                StandupItems[i].of = p[1] \o "#" \o ToString(p[2]) }
               IN  /\ Cardinality(lines) = IF group = {} THEN 0 ELSE 1
                   /\ \A i \in lines : \E j \in LatestOf(group) :
                          /\ StandupItems[i].segs[5]
                                 = Text(" (" \o report.events[j].processed_info.review_state
                                        \o ")")
                          /\ StandupItems[i].segs[3].label = "PR #" \o ToString(p[2])
        /\ Cardinality(ReviewLinesAt)
               = Cardinality({ p \in ReviewPairs : ReviewGroup(p[1], p[2]) # {} })

\* A report of two reviews of one pull request and a review of another
\* repository's pull request: two review lines, one of them stating the
\* state of the later of the two reviews.
C19_Witness ==
    /\ JsonFormatted
    /\ Cardinality(ReviewGroup("r1", 1)) = 2
    /\ Cardinality(ReviewGroup("r2", 1)) = 1
    /\ Cardinality(ReviewLinesAt) = 2
    /\ \E i \in ReviewLinesAt : StandupItems[i].segs[5] = Text(" (approved)")

\* The lines of kind kind written for event e.
LinesOf(kind, e) ==
    { i \in DOMAIN StandupItems : StandupItems[i].kind = kind /\ StandupItems[i].of = e }

LinesOfKind(kind) == { i \in DOMAIN StandupItems : StandupItems[i].kind = kind }

EventsWhere(Test(_)) == { i \in DOMAIN report.events : Test(report.events[i]) }

IsReportedPr(e) ==
    /\ e.event_type = "PullRequestEvent"
    /\ e.payload.action \in {"opened", "closed", "merged"}

IsBranchCreation(e) == e.event_type = "CreateEvent" /\ e.processed_info.ref_type = "branch"

IsComment(e) == e.event_type = "IssueCommentEvent"

\* C20: exactly one line per Pull-request event opened, closed or merged and
\* none for another action; exactly one line per issue-comment event;
\* exactly one line per creation of a branch and none for the creation of
\* another ref or for a deletion.
C20_OneLinePerEvent ==
    JsonFormatted =>
        /\ \A i \in DOMAIN report.events :
               LET e == report.events[i]
               IN  /\ Cardinality(LinesOf("pr", e)) = IF IsReportedPr(e) THEN 1 ELSE 0
                   /\ Cardinality(LinesOf("comment", e)) = IF IsComment(e) THEN 1 ELSE 0
                   /\ Cardinality(LinesOf("branch", e))
                          = IF IsBranchCreation(e) THEN 1 ELSE 0
        /\ Cardinality(LinesOfKind("pr")) = Cardinality(EventsWhere(IsReportedPr))
        /\ Cardinality(LinesOfKind("comment")) = Cardinality(EventsWhere(IsComment))
        /\ Cardinality(LinesOfKind("branch")) = Cardinality(EventsWhere(IsBranchCreation))

\* A report of a merged pull request, a reopened one and the creation of a
\* tag: its only line is that of the merged pull request.
C20_Witness ==
    /\ JsonFormatted
    /\ { <<report.events[i].event_type, report.events[i].payload.action>> :
            i \in DOMAIN report.events }
           = { <<"PullRequestEvent", "merged">>, <<"PullRequestEvent", "reopened">>,
               <<"CreateEvent", "">> }
    /\ \A i \in DOMAIN report.events :
           report.events[i].event_type = "CreateEvent"
               => report.events[i].processed_info.ref_type = "tag"
    /\ Len(StandupItems) = 1
    /\ StandupItems[1].segs[1] = Text("- Merged ")

\* ---- dates

\* parse_date has returned or raised.
DateParsed == dates.pc \in {"parsed", "ranged", "raised"}

\* C21: for an empty or absent expression, and for one that is no recognized
\* form and that the generic parser rejects, parse_date returns the day 3
\* days before today on a Monday and 1 day before today otherwise, and does
\* not raise.
C21_LastWorkdayFallback ==
    (DateParsed /\ dates.path \in {"empty", "rejected"}) =>
        /\ dates.raised = NoException
        /\ dates.result = dates.today - (IF weekday(dates.today) = 0 THEN 3 ELSE 1)

\* The weekday the expression names, 0 for Monday, if it names one.
NamesWeekday(e) == \E i \in 1..7 : \E f \in SpellingsOf(i) : f.raw = e
NamedWeekday(e) == (CHOOSE i \in 1..7 : \E f \in SpellingsOf(i) : f.raw = e) - 1

\* C22: for a weekday name in any of its spellings, the day returned falls on
\* the named weekday and lies 1 to 7 days before today, 7 days exactly when
\* today is the named weekday.
C22_LastWeekday ==
    (DateParsed /\ NamesWeekday(dates.expression)) =>
        LET back == dates.today - dates.result
        IN  /\ dates.raised = NoException
            /\ weekday(dates.result) = NamedWeekday(dates.expression)
            /\ 1 <= back /\ back <= 7
            /\ back = 7 <=> weekday(dates.today) = NamedWeekday(dates.expression)

\* "LAST FRI" asked on a Friday: the Friday of the week before.
C22_Witness ==
    /\ dates.pc = "parsed"
    /\ dates.expression = "LAST FRI"
    /\ weekday(dates.today) = 4
    /\ dates.result = dates.today - 7

\* Time stamps compare as their strings do: field by field from the left.
RECURSIVE StampLess(_, _)
StampLess(a, b) ==
    /\ a # <<>>
    /\ \/ Head(a) < Head(b)
       \/ Head(a) = Head(b) /\ StampLess(Tail(a), Tail(b))

\* b is the calendar day after a.
IsDayAfter(a, b) ==
    \/ /\ a.day < days_in_month(a.year, a.month)
       /\ b = [a EXCEPT !.day = a.day + 1]
    \/ /\ a.day = days_in_month(a.year, a.month)
       /\ a.month < 12
       /\ b = [year |-> a.year, month |-> a.month + 1, day |-> 1]
    \/ /\ a.day = 31 /\ a.month = 12
       /\ b = [year |-> a.year + 1, month |-> 1, day |-> 1]

\* Instants of a day: its first, its last and one between.
SomeInstants == { <<0, 0, 0>>, <<12, 30, 0>>, <<23, 59, 59>> }

\* C23: the window of date d starts at d 00:00:00Z and ends on the calendar
\* day after d at 07:59:59Z; start is before end and the instants of d are
\* inside the window.
C23_DateRange ==
    dates.pc = "ranged" =>
        LET d == datetime_of(dates.result)
            start == dates.window.start
            end == dates.window.end
            after == [year |-> end[1], month |-> end[2], day |-> end[3]]
        IN  /\ start = << d.year, d.month, d.day, 0, 0, 0 >>
            /\ IsDayAfter(d, after)
            /\ SubSeq(end, 4, 6) = << 7, 59, 59 >>
            /\ StampLess(start, end)
            /\ \A t \in SomeInstants :
                   LET instant == << d.year, d.month, d.day >> \o t
                   IN  /\ start = instant \/ StampLess(start, instant)
                       /\ StampLess(instant, end)

\* The window of 2023-12-31 ends on 2024-01-01.
C23_Witness ==
    /\ dates.pc = "ranged"
    /\ datetime_of(dates.result) = [year |-> 2023, month |-> 12, day |-> 31]
    /\ dates.window.end = << 2024, 1, 1, 7, 59, 59 >>

\* C28: the day parse_date returns for an empty expression is a Monday to
\* Friday day.
C28_DefaultIsWorkday ==
    (DateParsed /\ dates.path = "empty") => weekday(dates.result) \in 0..4

\* ---- subprocesses

\* C24: an invocation of the version-manager shim that has begun eventually
\* returns, whatever the external programs do.
C24_EventuallyReturns == (command.pc = "env") ~> (command.pc = "returned")

\* The call of subprocess.run for the environment export.
EnvQuery == Spawn(<<"mise", "env", "-s", "bash">>, FALSE, 0, NoneVal)

MiseReturned == command.pc = "returned" /\ command.fn = "run_mise_command"

ExportedLines == { l \in command.env_result.stdout : l.export /\ l.eq }
ExportedValue(l) ==
    CASE l.key = "PATH" -> "/opt/mise/bin"
      [] l.key = "LANG" -> "en"
      [] l.key = "NODE" -> "'20"

ResolvedForCaller ==
    backend = "cli" /\ ~Truthy(call.arg_username)
        /\ call.pc \notin {"idle", "current_user"}

\* C27 as stated: a call issues the external queries it would issue on a
\* fresh service.  A fresh CLI-backed service asks the external source for
\* the identity in every call that is given no username.
C27_Original == ResolvedForCaller => "current_user" \in call.listing

\* The call record after the first step of get_activity(username, repos) on
\* a service that was just created.
OnFreshService(username, repos) ==
    LET c == [IdleCall EXCEPT !.username = username, !.repos = repos,
                              !.arg_username = username]
    IN  IF backend = "cli" /\ ~Truthy(username)
        THEN [c EXCEPT !.pc = "current_user"]
        ELSE Resolve(c)

\* The call record of a fresh service once the identity query has answered
\* login.
OnFreshServiceAs(login, repos) ==
    Resolve([IdleCall EXCEPT !.username = login, !.repos = repos,
                             !.listing = {"current_user"}])

\* C27 (amended): besides the dedup set, which every call empties, a call
\* leaves on the service only the identity the CLI-backed service has
\* remembered; it is written once and never changed, the HTTP-backed
\* service has none.  A call begins as on a fresh service, except that the
\* CLI-backed call without a username, when an identity is remembered, does
\* not ask for the identity and goes on as a fresh service does after the
\* answer with that identity.
C27_OnlyIdentityCarried ==
    [][ /\ current_user # NoneVal => current_user' = current_user
        /\ backend = "http" => current_user' = NoneVal
        /\ (call.pc = "idle" /\ call'.pc # "idle") =>
              /\ seen_commits' = {}
              /\ LET began == [call' EXCEPT !.refetch = FALSE]
                     remembered == backend = "cli" /\ ~Truthy(call'.arg_username)
                                       /\ current_user # NoneVal
                 IN  IF remembered
                     THEN /\ "current_user" \notin call'.listing
                          /\ [began EXCEPT !.listing = @ \cup {"current_user"}]
                                 = OnFreshServiceAs(current_user, call'.repos)
                     ELSE began = OnFreshService(call'.arg_username, call'.repos)
      ]_vars

\* C27 witness: a call without username that returned events of the
\* remembered identity without asking for it.
C27_Witness ==
    /\ ResolvedForCaller
    /\ call.pc = "returned"
    /\ "current_user" \notin call.listing
    /\ call.username = "alice"
    /\ current_user = "alice"
    /\ Len(call.result) > 0

\* ---- completeness over a fixed feed

\* Whether the event e was built from the record raw of the feed.
FromRecord(e, raw) ==
    /\ e.event_type = raw.type
    /\ e.created_at = raw.created_at
    /\ e.actor = raw.login
    /\ e.payload = [commits |-> raw.commits, number |-> raw.number,
                    action |-> raw.action]

\* The records of the feed the call is to return: inside the window, both
\* bounds included, and of the actor asked for when there is one.
Wanted(raw) ==
    /\ get_utc_date_range(TargetDay).start <= raw.created_at
    /\ raw.created_at <= get_utc_date_range(TargetDay).end
    /\ Truthy(call.username) => StrLower(raw.login) = StrLower(call.username)

\* The feed's records not older than the start fit in 50 pages of 100.
FitsInPages ==
    feed.fill + Len(SelectSeq(feed.recs,
                              LAMBDA r : r.created_at
                                             >= get_utc_date_range(TargetDay).start))
        <= 50 * 100

\* C29: over a fixed feed returned newest first, whose records not older
\* than the start fit in 50 pages of 100, for a repository named once in the
\* list and with no failing external call, every record of the feed inside
\* the window that passes the actor filter is in the returned collection
\* exactly once.
C29_Complete ==
    (/\ call.pc = "returned"
     /\ ~call.ext_fail
     /\ Len(call.repos_to_process) = 1
     /\ FitsInPages) =>
        \A i \in DOMAIN feed.recs :
            Wanted(feed.recs[i]) =>
                Len(SelectSeq(call.result,
                              LAMBDA e : /\ e.repo = call.repos_to_process[1]
                                         /\ FromRecord(e, feed.recs[i]))) = 1

\* C29 witness: the two records of the window by the actor asked for are the
\* last two of page 50, and the call that read the 50 pages returned both.
C29_Witness ==
    /\ call.pc = "returned"
    /\ ~call.ext_fail
    /\ Len(call.repos_to_process) = 1
    /\ FitsInPages
    /\ call.page = 50
    /\ call.username = "alice"
    /\ Len(feed.recs) >= 2
    /\ \A i \in DOMAIN feed.recs : Wanted(feed.recs[i])
    /\ Len(call.result) = Len(feed.recs)

\* ---- termination

\* C30: every external call returning, a get_activity call that has begun
\* comes to its end, with a collection or an error, whatever the responses
\* hold.
C30_Terminates == (call.pc # "idle") ~> (call.pc \in {"returned", "raised"})

\* The pagination of the events of the repositories comes to its end.
EventPagesEnd == (call.pc = "repo_events") ~> (call.pc \in {"returned", "raised"})

====
